---- MODULE Spec2Model ----
(***************************************************************************)
(* A model of the insurance-pricing feature-transformation and explanation *)
(* pipeline: the attribution aggregator (insurance_pricing/                *)
(* explainability.py) and the fitted data transformer (train/stages/       *)
(* prepare_data.py).                                                       *)
(*                                                                         *)
(* Numbers.  The code computes in binary floating point.  The model uses   *)
(* exact fixed-point integers:                                             *)
(*   - attribution amounts are counted in halves (the integer 20 stands    *)
(*     for 10.0), and the inputs are whole amounts, so that 0.5 * amount   *)
(*     is exact, as it is in binary floating point;                        *)
(*   - charges are counted in eighths and bmi in two-hundredths (the     *)
(*     integer 4025 stands for a bmi of 20.125); training values are       *)
(*     multiples of eight units apart, so that the quartile interpolation  *)
(*     and the 1.5 * IQR rule are exact.  Two-hundredths hold both the     *)
(*     eighths, which binary floating point holds exactly, and the         *)
(*     hundredths, in which the warnings print the training bounds.        *)
(***************************************************************************)
EXTENDS Integers, Sequences, FiniteSets, TLC

VARIABLES
    call,            \* which entry point has run: "idle" before any call
    explain_top_k,   \* Settings.explain_top_k
    feature_names,   \* the expanded column names handed to the aggregator
    shap_input,      \* the attribution method's output (raw_values), or the
                     \* contribution vector of a direct aggregation call
    shap_row,        \* the 1-d contribution vector that was bucketed
    aggregated,      \* _aggregate_contributions' return value
    payload,         \* compute_shap_contributions' outcome
    transformer,     \* the InsuranceDataTransformer object
    train_df,        \* the training frame fit was given, <<>> before fit
    targ,            \* the argument of the transformer call that has run
    tresult,         \* its outcome
    disk,            \* the artifacts at settings.model_path and at
                     \* settings.transformer_path
    app_state,       \* app.state: model, transformer, their errors, version
    openai_api_key,  \* Settings.openai_api_key, "" when it is not set
    response,        \* the outcome of the predict handler
    np_random,       \* numpy's global random state, shared by the process
    composed,        \* <<>>, or the first direct call of the composer: its
                     \* inputs, its narrative, and what was called since
    ran              \* the calls the last predict handler made, in order

aggVars == <<explain_top_k, feature_names, shap_input, shap_row, aggregated,
             payload>>

trVars == <<transformer, train_df, targ, tresult>>

svcVars == <<disk, app_state, openai_api_key, response>>

procVars == <<np_random, composed, ran>>

vars == <<call, aggVars, trVars, svcVars, procVars>>

(***************************************************************************)
(* Bounds of the model.                                                    *)
(***************************************************************************)
MaxLen == 3          \* longest name list of a direct aggregation call
MaxRegions == 2      \* how many of the four regions training data may hold
MaxEnvTopK == 7      \* largest EXPLAIN_TOP_K the environment sets
MaxTrainRows == 4    \* most rows of a training frame

(***************************************************************************)
(* Program constants.                                                      *)
(***************************************************************************)
RAW_FEATURE_ORDER == <<"age", "sex", "bmi", "children", "smoker", "region">>

DEFAULT_EXPLAIN_TOP_K == 8

REGION_LITERALS == <<"northeast", "northwest", "southeast", "southwest">>

(***************************************************************************)
(* Helpers.                                                                *)
(***************************************************************************)
Abs(x) == IF x < 0 THEN -x ELSE x

Max2(a, b) == IF a >= b THEN a ELSE b

Min2(a, b) == IF a <= b THEN a ELSE b

Range(s) == {s[i] : i \in 1..Len(s)}

RECURSIVE SumSeq(_)
SumSeq(s) == IF s = <<>> THEN 0 ELSE s[1] + SumSeq(Tail(s))

\* str.startswith
StartsWith(s, p) == Len(s) >= Len(p) /\ SubSeq(s, 1, Len(p)) = p

\* sorted(...) of a set of strings that are region literals: the literals are
\* listed in alphabetical order, so sorting keeps that order.
RECURSIVE SortedRegions(_, _)
SortedRegions(S, i) ==
    IF i > Len(REGION_LITERALS) THEN <<>>
    ELSE (IF REGION_LITERALS[i] \in S THEN <<REGION_LITERALS[i]>> ELSE <<>>)
         \o SortedRegions(S, i + 1)

(***************************************************************************)
(* prepare_data.py: the encode mappings and the expanded column list.      *)
(***************************************************************************)
\* _fit_encode_mappings, given the set of regions the training rows hold
FitEncodeMappings(regions) ==
    LET region_categories == SortedRegions(regions, 1) IN
    [binary_sex |-> [female |-> 0, male |-> 1],
     binary_smoker |-> [no |-> 0, yes |-> 1],
     onehot_region_categories |-> region_categories,
     onehot_region_columns |->
         [i \in 1..Len(region_categories) |-> "region_" \o region_categories[i]]]

\* _get_feature_columns_after_encode
GetFeatureColumnsAfterEncode(mappings) ==
    <<"age", "sex", "bmi", "children", "smoker">>
    \o mappings.onehot_region_columns
    \o <<"smoker_bmi", "age_bmi">>

(***************************************************************************)
(* explainability.py: _aggregate_contributions.                            *)
(***************************************************************************)
\* 0.5 * amount, on amounts counted in halves
Half(amount) == amount \div 2

\* dict.fromkeys(RAW_FEATURE_ORDER, 0.0)
EmptyBuckets == [f \in Range(RAW_FEATURE_ORDER) |-> 0]

\* ExtrasAdd with a plausible slip: extras[name] = amount
ExtrasAddOverwrite(extras, name, amount) ==
    IF \E i \in 1..Len(extras) : extras[i][1] = name
    THEN [i \in 1..Len(extras) |->
             IF extras[i][1] = name THEN <<name, amount>> ELSE extras[i]]
    ELSE Append(extras, <<name, amount>>)

\* extras[name] = extras.get(name, 0.0) + amount, on a dict kept as the
\* sequence of its (key, value) pairs in insertion order
ExtrasAdd(extras, name, amount) ==
    IF \E i \in 1..Len(extras) : extras[i][1] = name
    THEN [i \in 1..Len(extras) |->
             IF extras[i][1] = name
             THEN <<name, extras[i][2] + amount>>
             ELSE extras[i]]
    ELSE Append(extras, <<name, amount>>)

\* BucketStep with a plausible slip: the age_bmi branch is a copy of the
\* smoker_bmi branch
BucketStepCopiedBranch(acc, name, amount) ==
    IF name \in DOMAIN acc.buckets
    THEN [acc EXCEPT !.buckets[name] = @ + amount]
    ELSE IF StartsWith(name, "region_")
    THEN [acc EXCEPT !.buckets["region"] = @ + amount]
    ELSE IF name = "smoker_bmi" \/ name = "age_bmi"
    THEN [acc EXCEPT !.buckets["smoker"] = @ + Half(amount),
                     !.buckets["bmi"] = @ + Half(amount)]
    ELSE [acc EXCEPT !.extras = ExtrasAdd(@, name, amount)]

\* one iteration of the loop over zip(feature_names, shap_values)
BucketStep(acc, name, amount) ==
    IF name \in DOMAIN acc.buckets
    THEN [acc EXCEPT !.buckets[name] = @ + amount]
    ELSE IF StartsWith(name, "region_")
    THEN [acc EXCEPT !.buckets["region"] = @ + amount]
    ELSE IF name = "smoker_bmi"
    THEN [acc EXCEPT !.buckets["smoker"] = @ + Half(amount),
                     !.buckets["bmi"] = @ + Half(amount)]
    ELSE IF name = "age_bmi"
    THEN [acc EXCEPT !.buckets["age"] = @ + Half(amount),
                     !.buckets["bmi"] = @ + Half(amount)]
    ELSE [acc EXCEPT !.extras = ExtrasAdd(@, name, amount)]

\* the loop: zip(..., strict=False) stops at the shorter of the two
RECURSIVE BucketLoop(_, _, _, _)
BucketLoop(acc, names, values, i) ==
    IF i > Min2(Len(names), Len(values)) THEN acc
    ELSE BucketLoop(BucketStep(acc, names[i], values[i]), names, values, i + 1)

\* ShapContribution(feature, value, shap_value, abs_shap_value); value is the
\* observed raw value ("observed") or the marker "derived"
ShapContribution(feature, value, shap_value) ==
    [feature |-> feature, value |-> value,
     shap_value |-> shap_value, abs_shap_value |-> Abs(shap_value)]

AggregateContributions(names, values) ==
    LET acc == BucketLoop([buckets |-> EmptyBuckets, extras |-> <<>>],
                          names, values, 1)
    IN  [i \in 1..Len(RAW_FEATURE_ORDER) |->
            ShapContribution(RAW_FEATURE_ORDER[i], "observed",
                             acc.buckets[RAW_FEATURE_ORDER[i]])]
        \o [i \in 1..Len(acc.extras) |->
            ShapContribution(acc.extras[i][1], "derived", acc.extras[i][2])]

(***************************************************************************)
(* explainability.py: the attribution method's output and _as_1d_vector.   *)
(* A numpy array is its shape and its elements in row-major order.         *)
(***************************************************************************)
NdArray(shape, data) == [shape |-> shape, data |-> data]

\* raw_values: a Python list of arrays (is_list) or one array (elems[1])
RawValues(is_list, elems) == [is_list |-> is_list, elems |-> elems]

RECURSIVE Product(_)
Product(s) == IF s = <<>> THEN 1 ELSE s[1] * Product(Tail(s))

Zeros(n) == [i \in 1..n |-> 0]

Ok(v) == [ok |-> TRUE, value |-> v]

Raise(e) == [ok |-> FALSE, error |-> e]

As1dVector(raw_values, expected_width) ==
    LET array == IF raw_values.is_list /\ raw_values.elems # <<>>
                 THEN raw_values.elems[1]
                 ELSE IF raw_values.is_list
                 THEN NdArray(<<0>>, <<>>)
                 ELSE raw_values.elems[1]
        ndim == Len(array.shape)
        size == Product(array.shape)
    IN  IF ndim = 1 THEN Ok(array.data)
        ELSE IF ndim = 2
        THEN IF array.shape[1] = 0 THEN Raise("IndexError")
             ELSE Ok(SubSeq(array.data, 1, array.shape[2]))
        ELSE IF ndim >= 3
        THEN IF expected_width = 0 \/ size % expected_width # 0
             THEN Raise("ValueError")
             ELSE IF size = 0 THEN Raise("IndexError")
             ELSE Ok(SubSeq(array.data, 1, expected_width))
        ELSE Ok(Zeros(expected_width))

(***************************************************************************)
(* explainability.py: _compute_local_shap.  An explainer's run is given by *)
(* its outcome: it raises, or it returns raw_values and expected_value.    *)
(***************************************************************************)
ExplainerRaises == [raises |-> TRUE]

ExplainerReturns(raw_values, expected_value) ==
    [raises |-> FALSE, raw_values |-> raw_values,
     expected_value |-> expected_value]

\* one explainer's branch: shap_values, _as_1d_vector, _coerce_base_value
\* prepare_data.py 31-32: the seed set when the transformer module is
\* imported, which model.py does at startup
RANDOM_SEED == 42

\* explainability.py 16-17
SHAP_RANDOM_SEED == 42
KERNEL_NSAMPLES == 100

\* numpy's global random state: the seed last set and the samples drawn
\* since; np.random.seed(seed)
NpRandomSeed(seed) == [seed |-> seed, drawn |-> 0]

\* the state after the kernel explainer drew nsamples coalitions
NpRandomDraw(rng, nsamples) == [rng EXCEPT !.drawn = @ + nsamples]

ExplainBranch(outcome, names) ==
    IF outcome.raises THEN Raise("ExplainerError")
    ELSE LET row == As1dVector(outcome.raw_values, Len(names)) IN
         IF row.ok
         THEN Ok([shap_row |-> row.value, base_value |-> outcome.expected_value])
         ELSE row

\* numpy's global random state after compute_shap_contributions got as far
\* as _compute_local_shap: seeded on entry (line 26), advanced when the
\* kernel explainer sampled
NpRandomAfterShap(supports_tree, tree, kernel, names) ==
    IF (supports_tree /\ ExplainBranch(tree, names).ok) \/ kernel.raises
    THEN NpRandomSeed(SHAP_RANDOM_SEED)
    ELSE NpRandomDraw(NpRandomSeed(SHAP_RANDOM_SEED), KERNEL_NSAMPLES)

ComputeLocalShap(supports_tree, tree, kernel, names) ==
    LET tree_result == ExplainBranch(tree, names) IN
    IF supports_tree /\ tree_result.ok
    THEN tree_result
    ELSE ExplainBranch(kernel, names)

(***************************************************************************)
(* explainability.py: compute_shap_contributions.                          *)
(***************************************************************************)
\* InsertByAbsDesc with a plausible slip: an item goes in front of the items
\* of equal key (a sort that is not stable)
RECURSIVE InsertByAbsDescUnstable(_, _)
InsertByAbsDescUnstable(sorted, item) ==
    IF sorted = <<>> THEN <<item>>
    ELSE IF sorted[1].abs_shap_value > item.abs_shap_value
    THEN <<sorted[1]>> \o InsertByAbsDescUnstable(Tail(sorted), item)
    ELSE <<item>> \o sorted

\* list.sort(key=abs_shap_value, reverse=True): a stable sort, so an item goes
\* behind every item already placed whose key is at least its own
RECURSIVE InsertByAbsDesc(_, _)
InsertByAbsDesc(sorted, item) ==
    IF sorted = <<>> THEN <<item>>
    ELSE IF sorted[1].abs_shap_value >= item.abs_shap_value
    THEN <<sorted[1]>> \o InsertByAbsDesc(Tail(sorted), item)
    ELSE <<item>> \o sorted

RECURSIVE SortByAbsDesc(_, _)
SortByAbsDesc(items, i) ==
    IF i = 0 THEN <<>>
    ELSE InsertByAbsDesc(SortByAbsDesc(items, i - 1), items[i])

\* Truncate with a plausible slip: contributions[:top_k - 1]
TruncateOffByOne(items, top_k) == SubSeq(items, 1, Min2(top_k - 1, Len(items)))

\* contributions[:top_k]
Truncate(items, top_k) == SubSeq(items, 1, Min2(top_k, Len(items)))

ShapPayload(base_value, contributions, top_k) ==
    [base_value |-> base_value, contributions |-> contributions,
     top_k |-> top_k]

ComputeShapContributions(supports_tree, tree, kernel, names, top_k) ==
    LET local == ComputeLocalShap(supports_tree, tree, kernel, names) IN
    IF ~local.ok THEN local
    ELSE LET contributions ==
                 AggregateContributions(names, local.value.shap_row)
             sorted == SortByAbsDesc(contributions, Len(contributions))
         IN  Ok(ShapPayload(local.value.base_value,
                            Truncate(sorted, top_k), top_k))

(***************************************************************************)
(* settings.py: Settings.from_env, the EXPLAIN_TOP_K entry.  env is <<n>>  *)
(* when the variable holds the integer n, and <<>> when it is unset.       *)
(***************************************************************************)
ExplainTopKFromEnv(env) ==
    Max2(1, IF env = <<>> THEN DEFAULT_EXPLAIN_TOP_K ELSE env[1])

(***************************************************************************)
(* prepare_data.py: InsuranceDataTransformer.                              *)
(*                                                                         *)
(* A one-row DataFrame is the sequence of its (column, value) pairs in     *)
(* column order.  A training frame is given by its columns: age, bmi,      *)
(* children and charges as sequences sorted upwards (fit reads them        *)
(* through quantile, min, max and sums only) and region as the set of its  *)
(* distinct values.  charges are counted in eighths, bmi in                *)
(* two-hundredths.                                                         *)
(*                                                                         *)
(* A StandardScaler fitted on n samples of sum S has mean_ = S / n and a   *)
(* scale_ > 0; the standardized value (x - mean_) / scale_ is carried as   *)
(* the integer n * x - S, its exact multiple by the fitted n * scale_.     *)
(***************************************************************************)
FEATURE_COLUMNS == <<"age", "sex", "bmi", "children", "smoker", "region">>

TARGET_COLUMN == "charges"

WINSORIZE_COLUMNS == <<"bmi", "charges">>

SCALE_FEATURE_COLUMNS == <<"age", "bmi">>

SCALE_TARGET == TRUE

None == [is_none |-> TRUE]

\* StandardScaler().fit(columns), columns a sequence of sample sequences
StandardScalerFit(columns) ==
    [is_none |-> FALSE,
     n_samples |-> Len(columns[1]),
     sums |-> [c \in 1..Len(columns) |-> SumSeq(columns[c])]]

\* StandardScaler.transform of the value x of column c
StandardScalerTransform(scaler, c, x) == scaler.n_samples * x - scaler.sums[c]

\* StandardScaler.inverse_transform of the value z of column c
StandardScalerInverse(scaler, c, z) == (z + scaler.sums[c]) \div scaler.n_samples

\* np.log1p on eighths: LOG1P_E4[k + 1] = round(10^4 * ln(1 + k / 8))
LOG1P_E4 ==
    <<
      0, 1178, 2231, 3185, 4055, 4855, 5596, 6286, 6931, 7538,
      8109, 8650, 9163, 9651, 10116, 10561, 10986, 11394, 11787, 12164,
      12528, 12879, 13218, 13545, 13863, 14171, 14469, 14759, 15041, 15315,
      15581, 15841, 16094, 16341, 16582, 16818, 17047, 17272, 17492, 17707,
      17918, 18124, 18326, 18524, 18718, 18909, 19095, 19279, 19459, 19636,
      19810, 19981, 20149, 20314, 20477, 20637, 20794, 20949, 21102, 21253,
      21401, 21547, 21691, 21832, 21972, 22110, 22246, 22380, 22513, 22644,
      22773, 22900, 23026, 23150, 23273, 23394, 23514, 23632, 23749, 23865,
      23979, 24092, 24204, 24314, 24423, 24532, 24639, 24744, 24849, 24953,
      25055, 25157, 25257, 25357, 25455, 25553, 25649
    >>

Log1p(y) == LOG1P_E4[y + 1]

\* np.expm1: the inverse of Log1p on its values, the nearest argument below
\* elsewhere
Expm1(v) ==
    LET below == {k \in 1..Len(LOG1P_E4) : LOG1P_E4[k] <= v} IN
    IF below = {} THEN 0
    ELSE (CHOOSE k \in below : \A m \in below : m <= k) - 1

\* InsuranceDataTransformer.__init__
NewTransformer ==
    [winsorize_bounds |-> <<>>,
     encode_mappings |-> <<>>,
     feature_columns |-> <<>>,
     scale_feature_columns |-> SCALE_FEATURE_COLUMNS,
     feature_scaler |-> None,
     target_scaler |-> None,
     target_log |-> TRUE,
     schema_features |-> FEATURE_COLUMNS,
     schema_target |-> TARGET_COLUMN,
     raw_feature_ranges |-> <<>>]

\* Series.quantile(num / 4) of a series sorted upwards, by linear
\* interpolation at position (n - 1) * num / 4
Quantile(series, num) ==
    LET pos == (Len(series) - 1) * num
        lo == pos \div 4
        frac == pos % 4
    IN  IF frac = 0 THEN series[lo + 1]
        ELSE series[lo + 1] + (frac * (series[lo + 2] - series[lo + 1])) \div 4

\* IqrBounds with a plausible slip: the fences are not capped by the
\* smallest and largest value of the series
IqrBoundsUncapped(series) ==
    LET q1 == Quantile(series, 1)
        q3 == Quantile(series, 3)
        iqr == q3 - q1
    IN  <<q1 - (3 * iqr) \div 2, q3 + (3 * iqr) \div 2>>

\* _iqr_bounds with multiplier IQR_MULTIPLIER = 1.5 = 3 / 2
IqrBounds(series) ==
    LET q1 == Quantile(series, 1)
        q3 == Quantile(series, 3)
        iqr == q3 - q1
        low == Max2(series[1], q1 - (3 * iqr) \div 2)
        high == Min2(series[Len(series)], q3 + (3 * iqr) \div 2)
    IN  <<low, high>>

\* _winsorize: Series.clip(lower=low, upper=high), value by value
Winsorize(x, bounds) == Min2(Max2(x, bounds[1]), bounds[2])

\* DataFrame access
Columns(frame) == [i \in 1..Len(frame) |-> frame[i][1]]

HasColumn(frame, col) == \E i \in 1..Len(frame) : frame[i][1] = col

GetColumn(frame, col) ==
    frame[CHOOSE i \in 1..Len(frame) : frame[i][1] = col][2]

\* frame[col] = value: in place when the column exists, appended otherwise
SetColumn(frame, col, value) ==
    IF HasColumn(frame, col)
    THEN [i \in 1..Len(frame) |->
             IF frame[i][1] = col THEN <<col, value>> ELSE frame[i]]
    ELSE Append(frame, <<col, value>>)

\* SelectColumns with a plausible slip: the columns are picked by a mask,
\* which keeps the order they have in the frame
RECURSIVE SelectColumnsInFrameOrder(_, _)
SelectColumnsInFrameOrder(frame, cols) ==
    IF frame = <<>> THEN <<>>
    ELSE (IF frame[1][1] \in Range(cols) THEN <<frame[1]>> ELSE <<>>)
         \o SelectColumnsInFrameOrder(Tail(frame), cols)

\* frame[cols]
SelectColumns(frame, cols) ==
    [i \in 1..Len(cols) |-> <<cols[i], GetColumn(frame, cols[i])>>]

\* EncodeRegions with a plausible slip: ordinal codes, the matching column
\* holds the rank of its category
RECURSIVE EncodeRegionsOrdinal(_, _, _)
EncodeRegionsOrdinal(frame, mappings, i) ==
    IF i > Len(mappings.onehot_region_categories) THEN frame
    ELSE EncodeRegionsOrdinal(
             SetColumn(frame, mappings.onehot_region_columns[i],
                       IF GetColumn(frame, "region")
                              = mappings.onehot_region_categories[i]
                       THEN i ELSE 0),
             mappings, i + 1)

\* the one-hot columns of _apply_encoding, one after the other
RECURSIVE EncodeRegions(_, _, _)
EncodeRegions(frame, mappings, i) ==
    IF i > Len(mappings.onehot_region_categories) THEN frame
    ELSE EncodeRegions(
             SetColumn(frame, mappings.onehot_region_columns[i],
                       IF GetColumn(frame, "region")
                              = mappings.onehot_region_categories[i]
                       THEN 1 ELSE 0),
             mappings, i + 1)

\* _apply_encoding; a missing column or mapping is a KeyError
ApplyEncoding(self, frame) ==
    IF ~HasColumn(frame, "sex") \/ "binary_sex" \notin DOMAIN self.encode_mappings
    THEN Raise("KeyError")
    ELSE IF ~HasColumn(frame, "smoker")
    THEN Raise("KeyError")
    ELSE IF Len(self.encode_mappings.onehot_region_categories) > 0
            /\ ~HasColumn(frame, "region")
    THEN Raise("KeyError")
    ELSE LET sexed == SetColumn(frame, "sex",
                 self.encode_mappings.binary_sex[GetColumn(frame, "sex")])
             smoked == SetColumn(sexed, "smoker",
                 self.encode_mappings.binary_smoker[GetColumn(frame, "smoker")])
         IN  Ok(EncodeRegions(smoked, self.encode_mappings, 1))

\* _add_interactions
AddInteractions(frame) ==
    IF \E c \in {"smoker", "bmi", "age"} : ~HasColumn(frame, c)
    THEN Raise("KeyError")
    ELSE LET with_smoker_bmi == SetColumn(frame, "smoker_bmi",
                 GetColumn(frame, "smoker") * GetColumn(frame, "bmi"))
         IN  Ok(SetColumn(with_smoker_bmi, "age_bmi",
                 GetColumn(frame, "age") * GetColumn(frame, "bmi")))

\* feature_scaler.transform on the scale_feature_columns of x_matrix
RECURSIVE ScaleColumns(_, _, _, _)
ScaleColumns(x_matrix, scaler, cols, c) ==
    IF c > Len(cols) THEN x_matrix
    ELSE ScaleColumns(
             SetColumn(x_matrix, cols[c],
                 StandardScalerTransform(scaler, c, GetColumn(x_matrix, cols[c]))),
             scaler, cols, c + 1)

\* ExpandRow with a plausible slip: bmi is clamped after the interaction
\* terms were computed
ExpandRowClampLate(self, frame, clamp) ==
    IF clamp /\ "bmi" \notin DOMAIN self.winsorize_bounds
    THEN Raise("KeyError")
    ELSE LET encoded == ApplyEncoding(self, frame) IN
         IF ~encoded.ok THEN encoded
         ELSE LET interacted == AddInteractions(encoded.value) IN
              IF ~interacted.ok THEN interacted
              ELSE IF \E i \in 1..Len(self.feature_columns) :
                         ~HasColumn(interacted.value, self.feature_columns[i])
              THEN Raise("KeyError")
              ELSE LET clamped ==
                           IF clamp
                           THEN SetColumn(interacted.value, "bmi",
                                    Winsorize(GetColumn(frame, "bmi"),
                                              self.winsorize_bounds.bmi))
                           ELSE interacted.value
                   IN  Ok(SelectColumns(clamped, self.feature_columns))

\* ExpandRow with a plausible slip: a raw column the frame lacks is filled
\* in with a default before the steps run
ExpandRowFillsAbsent(self, frame, clamp) ==
    IF clamp /\ "bmi" \notin DOMAIN self.winsorize_bounds
    THEN Raise("KeyError")
    ELSE LET Default(c) == IF c = "sex" THEN "female"
                           ELSE IF c = "smoker" THEN "no"
                           ELSE IF c = "region" THEN "unknown" ELSE 0
             filled == frame \o SelectSeq(
                           [i \in 1..Len(FEATURE_COLUMNS) |->
                               <<FEATURE_COLUMNS[i], Default(FEATURE_COLUMNS[i])>>],
                           LAMBDA pair : ~HasColumn(frame, pair[1]))
             clamped == IF clamp
                        THEN SetColumn(filled, "bmi",
                                 Winsorize(GetColumn(filled, "bmi"),
                                           self.winsorize_bounds.bmi))
                        ELSE filled
             encoded == ApplyEncoding(self, clamped)
         IN  IF ~encoded.ok THEN encoded
             ELSE LET interacted == AddInteractions(encoded.value) IN
                  IF ~interacted.ok THEN interacted
                  ELSE IF \E i \in 1..Len(self.feature_columns) :
                             ~HasColumn(interacted.value, self.feature_columns[i])
                  THEN Raise("KeyError")
                  ELSE Ok(SelectColumns(interacted.value, self.feature_columns))

\* the clamp, encode, interact and select steps that fit and
\* _transform_features_internal share, on one row
ExpandRow(self, frame, clamp) ==
    IF clamp /\ "bmi" \notin DOMAIN self.winsorize_bounds
    THEN Raise("KeyError")
    ELSE LET clamped == IF clamp
                        THEN SetColumn(frame, "bmi",
                                 Winsorize(GetColumn(frame, "bmi"),
                                           self.winsorize_bounds.bmi))
                        ELSE frame
             encoded == ApplyEncoding(self, clamped)
         IN  IF ~encoded.ok THEN encoded
             ELSE LET interacted == AddInteractions(encoded.value) IN
                  IF ~interacted.ok THEN interacted
                  ELSE IF \E i \in 1..Len(self.feature_columns) :
                             ~HasColumn(interacted.value, self.feature_columns[i])
                  THEN Raise("KeyError")
                  ELSE Ok(SelectColumns(interacted.value, self.feature_columns))

\* _transform_features_internal with a plausible slip: the scaler is fitted
\* on the row at hand whether or not one was fitted before
TransformFeaturesInternalRefits(self, frame) ==
    LET expanded == ExpandRow(self, frame, HasColumn(frame, "bmi")) IN
    IF ~expanded.ok THEN [outcome |-> expanded, self |-> self]
    ELSE LET x_matrix == expanded.value
             fitted ==
                 [self EXCEPT !.feature_scaler =
                     StandardScalerFit(
                         [c \in 1..Len(self.scale_feature_columns) |->
                             <<GetColumn(x_matrix,
                                         self.scale_feature_columns[c])>>])]
         IN  [outcome |-> Ok(ScaleColumns(x_matrix, fitted.feature_scaler,
                                          fitted.scale_feature_columns, 1)),
              self |-> fitted]

\* _transform_features_internal with a plausible slip: the interaction terms
\* are computed from the standardized age and bmi
TransformFeaturesInternalScaleFirst(self, frame) ==
    LET expanded == ExpandRow(self, frame, HasColumn(frame, "bmi")) IN
    IF ~expanded.ok \/ self.feature_scaler = None
    THEN [outcome |-> expanded, self |-> self]
    ELSE LET scaled == ScaleColumns(expanded.value, self.feature_scaler,
                                    self.scale_feature_columns, 1)
             interacted == AddInteractions(scaled)
         IN  [outcome |-> interacted, self |-> self]

\* _transform_features_internal: the outcome and the transformer after it
TransformFeaturesInternal(self, frame) ==
    LET expanded == ExpandRow(self, frame, HasColumn(frame, "bmi")) IN
    IF ~expanded.ok THEN [outcome |-> expanded, self |-> self]
    ELSE LET x_matrix == expanded.value
             fitted ==
                 IF self.feature_scaler = None
                 THEN [self EXCEPT !.feature_scaler =
                          StandardScalerFit(
                              [c \in 1..Len(self.scale_feature_columns) |->
                                  <<GetColumn(x_matrix,
                                              self.scale_feature_columns[c])>>])]
                 ELSE self
         IN  [outcome |-> Ok(ScaleColumns(x_matrix, fitted.feature_scaler,
                                          fitted.scale_feature_columns, 1)),
              self |-> fitted]

\* transform_features
TransformFeatures(self, frame) == TransformFeaturesInternal(self, frame)

\* the target steps of transform_features_and_target on one charges value
ForwardTarget(self, charges) ==
    LET clamped == Winsorize(charges, self.winsorize_bounds.charges)
        logged == IF self.target_log THEN Log1p(clamped) ELSE clamped
    IN  IF self.target_scaler # None
        THEN StandardScalerTransform(self.target_scaler, 1, logged)
        ELSE logged

\* transform_features_and_target
TransformFeaturesAndTarget(self, frame) ==
    LET x_scaled == TransformFeatures(self, frame) IN
    IF ~x_scaled.outcome.ok THEN x_scaled
    ELSE IF ~HasColumn(frame, TARGET_COLUMN)
            \/ TARGET_COLUMN \notin DOMAIN x_scaled.self.winsorize_bounds
    THEN [outcome |-> Raise("KeyError"), self |-> x_scaled.self]
    ELSE [outcome |-> Ok([x |-> x_scaled.outcome.value,
                          y |-> ForwardTarget(x_scaled.self,
                                              GetColumn(frame, TARGET_COLUMN))]),
          self |-> x_scaled.self]

\* inverse_transform_target with a plausible slip: the target scaler is not
\* inverted
InverseTransformTargetUnscaled(self, y_transformed) == Expm1(y_transformed)

\* inverse_transform_target on one value
InverseTransformTarget(self, y_transformed) ==
    LET y == IF self.target_scaler # None
             THEN StandardScalerInverse(self.target_scaler, 1, y_transformed)
             ELSE y_transformed
    IN  Expm1(y)


\* the rows of a training frame, as one-row frames
Rows(train) == 1..Len(train.age)

RowOf(train, i) ==
    <<<<"age", train.age[i]>>, <<"sex", train.sex[i]>>,
      <<"bmi", train.bmi[i]>>, <<"children", train.children[i]>>,
      <<"smoker", train.smoker[i]>>, <<"region", train.region[i]>>,
      <<"charges", train.charges[i]>>>>

\* fit; the feature scaler is fitted on the age column and the clamped bmi
\* column, which encoding and interactions leave as they are
Fit(self, train) ==
    LET bounds == [bmi |-> IqrBounds(train.bmi),
                   charges |-> IqrBounds(train.charges)]
        mappings == FitEncodeMappings(Range(train.region))
        ranges == [c \in 1..3 |->
                      LET col == <<"age", "bmi", "children">>[c]
                          series == <<train.age, train.bmi, train.children>>[c]
                      IN  [col |-> col, low |-> series[1],
                           high |-> series[Len(series)]]]
        bmi_clamped == [i \in Rows(train) |-> Winsorize(train.bmi[i], bounds.bmi)]
        y_log == [i \in Rows(train) |->
                     Log1p(Winsorize(train.charges[i], bounds.charges))]
    IN  [self EXCEPT
            !.winsorize_bounds = bounds,
            !.encode_mappings = mappings,
            !.feature_columns = GetFeatureColumnsAfterEncode(mappings),
            !.raw_feature_ranges = ranges,
            !.feature_scaler = StandardScalerFit(<<train.age, bmi_clamped>>),
            !.target_scaler = IF SCALE_TARGET
                              THEN StandardScalerFit(<<y_log>>) ELSE @]

\* fit_transformer
FitTransformer(train) == Fit(NewTransformer, train)

\* the units in which a column counts: bmi in two-hundredths, age and
\* children in ones
UnitsPerOne(col) == IF col = "bmi" THEN 200 ELSE 1

\* the integer nearest to num / den (den > 0), a tie going to the even one:
\* the rounding of the format specifications .2f and .0f on a value that
\* binary floating point holds exactly
RoundHalfEven(num, den) ==
    LET q == num \div den
        r == num % den
    IN  IF 2 * r < den THEN q
        ELSE IF 2 * r > den THEN q + 1
        ELSE IF q % 2 = 0 THEN q ELSE q + 1

\* f"{x:.2f}" of a value of column col: the number printed, in hundredths
Format2f(col, x) == RoundHalfEven(100 * x, UnitsPerOne(col))

\* RangeWarnings with a plausible slip: a value on a bound is warned about
RECURSIVE RangeWarningsAtBound(_, _, _)
RangeWarningsAtBound(self, frame, i) ==
    IF i > Len(self.raw_feature_ranges) THEN <<>>
    ELSE LET r == self.raw_feature_ranges[i]
             value == GetColumn(frame, r.col)
         IN  (IF value <= r.low \/ value >= r.high
              THEN <<[kind |-> "range", col |-> r.col, value |-> value,
                      low_2f |-> Format2f(r.col, r.low),
                      high_2f |-> Format2f(r.col, r.high)]>>
              ELSE <<>>)
             \o RangeWarningsAtBound(self, frame, i + 1)

\* the loop of check_extrapolation over raw_feature_ranges; a warning is the
\* text f"{col}={value} is outside raw train range [{low:.2f}, {high:.2f}]",
\* given by the column, the value (printed in full) and the two bounds as
\* printed, in hundredths
RECURSIVE RangeWarnings(_, _, _)
RangeWarnings(self, frame, i) ==
    IF i > Len(self.raw_feature_ranges) THEN <<>>
    ELSE LET r == self.raw_feature_ranges[i]
             value == GetColumn(frame, r.col)
         IN  (IF value < r.low \/ value > r.high
              THEN <<[kind |-> "range", col |-> r.col, value |-> value,
                      low_2f |-> Format2f(r.col, r.low),
                      high_2f |-> Format2f(r.col, r.high)]>>
              ELSE <<>>)
             \o RangeWarnings(self, frame, i + 1)

\* check_extrapolation with a plausible slip: the region is looked up among
\* the one-hot column names
CheckExtrapolationAmongColumns(self, frame) ==
    IF \E i \in 1..Len(self.raw_feature_ranges) :
          ~HasColumn(frame, self.raw_feature_ranges[i].col)
    THEN Raise("KeyError")
    ELSE IF ~HasColumn(frame, "region")
            \/ "onehot_region_columns" \notin DOMAIN self.encode_mappings
    THEN Raise("KeyError")
    ELSE Ok(RangeWarnings(self, frame, 1)
            \o (IF GetColumn(frame, "region")
                     \notin Range(self.encode_mappings.onehot_region_columns)
                THEN <<[kind |-> "region",
                        value |-> GetColumn(frame, "region")]>>
                ELSE <<>>))

\* check_extrapolation
CheckExtrapolation(self, frame) ==
    IF \E i \in 1..Len(self.raw_feature_ranges) :
          ~HasColumn(frame, self.raw_feature_ranges[i].col)
    THEN Raise("KeyError")
    ELSE IF ~HasColumn(frame, "region")
            \/ "onehot_region_categories" \notin DOMAIN self.encode_mappings
    THEN Raise("KeyError")
    ELSE Ok(RangeWarnings(self, frame, 1)
            \o (IF GetColumn(frame, "region")
                     \notin Range(self.encode_mappings.onehot_region_categories)
                THEN <<[kind |-> "region",
                        value |-> GetColumn(frame, "region")]>>
                ELSE <<>>))

\* model.py: payload_to_frame
PayloadToFrame(request) ==
    <<<<"age", request.age>>, <<"sex", request.sex>>, <<"bmi", request.bmi>>,
      <<"children", request.children>>, <<"smoker", request.smoker>>,
      <<"region", request.region>>>>

\* services/predictor.py: check_extrapolation on the dictionary of fitted
\* values; its bmi warning is the text f"bmi={bmi} is outside
\* training-supported range [{low:.2f}, {high:.2f}]"
PredictorCheckExtrapolation(request, transform_params) ==
    LET bounds == transform_params.winsorize_bounds
        mappings == transform_params.encode_mappings
    IN  (IF "bmi" \in DOMAIN bounds
            /\ (request.bmi < bounds.bmi[1] \/ request.bmi > bounds.bmi[2])
         THEN <<[kind |-> "supported", col |-> "bmi", value |-> request.bmi,
                 low_2f |-> Format2f("bmi", bounds.bmi[1]),
                 high_2f |-> Format2f("bmi", bounds.bmi[2])]>>
         ELSE <<>>)
        \o (IF "onehot_region_categories" \in DOMAIN mappings
               /\ mappings.onehot_region_categories # <<>>
               /\ request.region \notin Range(mappings.onehot_region_categories)
            THEN <<[kind |-> "region", value |-> request.region]>>
            ELSE <<>>)

(***************************************************************************)
(* Loading the transformer artifact (model.py, prepare_data.py).           *)
(*                                                                         *)
(* An artifact is what the file at the path holds: nothing (no file), a    *)
(* pickle that cannot be read, or a pickled object of some type.           *)
(***************************************************************************)
Artifact(type, object) == [exists |-> TRUE, type |-> type, object |-> object]

\* joblib.load
JoblibLoad(artifact) ==
    IF ~artifact.exists THEN Raise("FileNotFoundError")
    ELSE IF artifact.type = "unreadable" THEN Raise("UnpicklingError")
    ELSE Ok(artifact)

\* isinstance(loaded, InsuranceDataTransformer)
IsTransformer(loaded) == loaded.type = "InsuranceDataTransformer"

\* load_transformer with a plausible slip: the loaded object is returned
\* whatever its type
LoadTransformerUnchecked(artifact) ==
    IF ~artifact.exists THEN Raise("FileNotFoundError")
    ELSE LET loaded == JoblibLoad(artifact) IN
         IF ~loaded.ok THEN loaded ELSE Ok(loaded.value.object)

\* model.load_transformer (services/model_loader.py holds the same function)
LoadTransformer(artifact) ==
    IF ~artifact.exists THEN Raise("FileNotFoundError")
    ELSE LET loaded == JoblibLoad(artifact) IN
         IF ~loaded.ok THEN loaded
         ELSE IF ~IsTransformer(loaded.value) THEN Raise("ValueError")
         ELSE Ok(loaded.value.object)

\* InsuranceDataTransformer.load
TransformerLoad(artifact) ==
    LET loaded == JoblibLoad(artifact) IN
    IF ~loaded.ok THEN loaded
    ELSE IF ~IsTransformer(loaded.value) THEN Raise("ValueError")
    ELSE Ok(loaded.value.object)

\* InsuranceDataTransformer.save: joblib.dump(self, path)
Saved(self) == Artifact("InsuranceDataTransformer", self)

(***************************************************************************)
(* interpretation.py.  Texts are strings; a dollar amount printed with     *)
(* ,.0f is the whole number nearest to it, its thousands grouped.          *)
(***************************************************************************)
Char(s, i) == SubSeq(s, i, i)

ASCII_UPPERCASE == "ABCDEFGHIJKLMNOPQRSTUVWXYZ"

ASCII_LOWERCASE == "abcdefghijklmnopqrstuvwxyz"

LowerChar(c) ==
    LET at == {k \in 1..Len(ASCII_UPPERCASE) : Char(ASCII_UPPERCASE, k) = c}
    IN  IF at = {} THEN c ELSE Char(ASCII_LOWERCASE, CHOOSE k \in at : TRUE)

\* str.lower of the characters i..j of s, by halves
RECURSIVE LowerRange(_, _, _)
LowerRange(s, i, j) ==
    IF i > j THEN ""
    ELSE IF i = j THEN LowerChar(Char(s, i))
    ELSE LowerRange(s, i, (i + j) \div 2)
         \o LowerRange(s, (i + j) \div 2 + 1, j)

Lower(s) == LowerRange(s, 1, Len(s))

\* sub in s
Contains(s, sub) ==
    \E i \in 1..(Len(s) - Len(sub) + 1) : SubSeq(s, i, i + Len(sub) - 1) = sub

IsSpace(c) == c \in {" ", "\t", "\n"}

\* what the character i of s leaves in " ".join(s.strip().split()): itself
\* if it is no whitespace, after one blank if it starts a word that is not
\* the first
CompactChar(s, i) ==
    IF IsSpace(Char(s, i)) THEN ""
    ELSE IF i > 1 /\ IsSpace(Char(s, i - 1))
            /\ \E k \in 1..(i - 1) : ~IsSpace(Char(s, k))
    THEN " " \o Char(s, i)
    ELSE Char(s, i)

RECURSIVE CompactRange(_, _, _)
CompactRange(s, i, j) ==
    IF i > j THEN ""
    ELSE IF i = j THEN CompactChar(s, i)
    ELSE CompactRange(s, i, (i + j) \div 2)
         \o CompactRange(s, (i + j) \div 2 + 1, j)

\* " ".join(s.strip().split()): the words of s, one blank between two
Compact(s) == CompactRange(s, 1, Len(s))

\* the loop of _clean_bullets
RECURSIVE CleanBulletsFrom(_, _, _, _)
CleanBulletsFrom(raw_bullets, i, cleaned, seen) ==
    IF i > Len(raw_bullets) THEN cleaned
    ELSE LET compact == Compact(raw_bullets[i])
             lowered == Lower(compact)
         IN  IF compact = "" \/ lowered \in seen
             THEN CleanBulletsFrom(raw_bullets, i + 1, cleaned, seen)
             ELSE CleanBulletsFrom(raw_bullets, i + 1,
                                   Append(cleaned, compact),
                                   seen \cup {lowered})

CleanBullets(raw_bullets) == CleanBulletsFrom(raw_bullets, 1, <<>>, {})

GENERIC_TOKENS ==
    <<"predicted charge", "predicted charges", "base value",
      "estimate amount">>

\* HasFeature with a plausible slip: a name counts only as a whole word
HasFeatureWholeWord(bullet, top_features) ==
    \E k \in 1..Len(top_features) :
        Contains(" " \o Lower(bullet) \o " ",
                 " " \o Lower(top_features[k]) \o " ")

\* has_feature of a bullet
HasFeature(bullet, top_features) ==
    \E k \in 1..Len(top_features) :
        Contains(Lower(bullet), Lower(top_features[k]))

\* a bullet that names no feature and holds a generic token
IsGeneric(bullet, top_features) ==
    /\ ~HasFeature(bullet, top_features)
    /\ \E k \in 1..Len(GENERIC_TOKENS) :
           Contains(Lower(bullet), GENERIC_TOKENS[k])

\* _is_low_signal_interpretation with a plausible slip: one bullet naming a
\* feature is enough
IsLowSignalInterpretationOneBullet(interpretation, top_features) ==
    LET bullets == interpretation.bullets
        bullets_with_feature ==
            Cardinality({i \in 1..Len(bullets) :
                            HasFeature(bullets[i], top_features)})
        generic_without_features ==
            Cardinality({i \in 1..Len(bullets) :
                            IsGeneric(bullets[i], top_features)})
    IN  IF Len(bullets) < 2 THEN TRUE
        ELSE IF bullets_with_feature < 1 THEN TRUE
        ELSE generic_without_features = Len(bullets)

\* _is_low_signal_interpretation
IsLowSignalInterpretation(interpretation, top_features) ==
    LET bullets == interpretation.bullets
        bullets_with_feature ==
            Cardinality({i \in 1..Len(bullets) :
                            HasFeature(bullets[i], top_features)})
        generic_without_features ==
            Cardinality({i \in 1..Len(bullets) :
                            IsGeneric(bullets[i], top_features)})
    IN  IF Len(bullets) < 2 THEN TRUE
        ELSE IF bullets_with_feature < 2 THEN TRUE
        ELSE generic_without_features = Len(bullets)

\* a contribution's value: a str, an int, or a float (bmi, in two-hundredths)
StrValue(v) == [type |-> "str", v |-> v]

IntValue(v) == [type |-> "int", v |-> v]

FloatValue(v) == [type |-> "float", v |-> v]

\* _native_value(raw_row.get(feature)) of the request row
NativeValue(request, feature) ==
    IF feature \in {"age", "children"} THEN IntValue(request[feature])
    ELSE IF feature = "bmi" THEN FloatValue(request[feature])
    ELSE StrValue(request[feature])

\* the contributions with the value each holds: the request's for a raw
\* feature, "derived" for another name
WithValues(shap_payload, request) ==
    [shap_payload EXCEPT !.contributions =
        [i \in 1..Len(@) |->
            [@[i] EXCEPT !.value =
                IF @ = "derived" THEN StrValue("derived")
                ELSE NativeValue(request, shap_payload.contributions[i].feature)]]]

\* f"{x:.1f}" of a bmi
Format1f(x) ==
    LET tenths == RoundHalfEven(10 * x, UnitsPerOne("bmi")) IN
    ToString(tenths \div 10) \o "." \o ToString(tenths % 10)

\* _format_feature_value
FormatFeatureValue(value) ==
    IF value.type = "float"
    THEN IF value.v % UnitsPerOne("bmi") = 0
         THEN ToString(value.v \div UnitsPerOne("bmi"))
         ELSE Format1f(value.v)
    ELSE IF value.type = "int" THEN ToString(value.v)
    ELSE value.v

Pad3(k) ==
    IF k < 10 THEN "00" \o ToString(k)
    ELSE IF k < 100 THEN "0" \o ToString(k) ELSE ToString(k)

RECURSIVE Grouped(_)
Grouped(n) ==
    IF n < 1000 THEN ToString(n)
    ELSE Grouped(n \div 1000) \o "," \o Pad3(n % 1000)

\* f"${abs(x):,.0f}" of the amount num / den
Dollars(num, den) == "$" \o Grouped(RoundHalfEven(Abs(num), den))

\* _top_feature_direction
TopFeatureDirection(shap_value) ==
    IF shap_value > 0 THEN "increases"
    ELSE IF shap_value < 0 THEN "decreases" ELSE "mixed"

\* TopFeatureStrength with a plausible slip: rank 3 is still "medium"
TopFeatureStrengthOffByOne(rank) ==
    IF rank = 0 THEN "high"
    ELSE IF rank \in {1, 2, 3} THEN "medium" ELSE "low"

\* _top_feature_strength; rank counts from 0
TopFeatureStrength(rank) ==
    IF rank = 0 THEN "high"
    ELSE IF rank \in {1, 2} THEN "medium" ELSE "low"

\* ", ".join(names)
RECURSIVE Join(_)
Join(names) ==
    IF names = <<>> THEN ""
    ELSE IF Len(names) = 1 THEN names[1]
    ELSE names[1] \o ", " \o Join(Tail(names))

InterpretationPayload(headline, bullets, caveats, top_features) ==
    [headline |-> headline, bullets |-> bullets, caveats |-> caveats,
     top_features |-> top_features]

\* DriverBullet with a plausible slip: the wording is taken from a template
\* that the first call leaves behind, so it depends on what ran before
DriverBulletFromLeftover(item) ==
    LET formatted_value == FormatFeatureValue(item.value)
        delta == Dollars(item.shap_value, 2)
        lead == item.feature \o " (" \o formatted_value \o ") "
        verb == IF composed = <<>> THEN "d the estimate by about "
                ELSE "d this estimate by about "
    IN  IF item.shap_value > 0
        THEN lead \o "increase" \o verb \o delta \o "."
        ELSE IF item.shap_value < 0
        THEN lead \o "decrease" \o verb \o delta \o "."
        ELSE lead \o "had minimal effect on this estimate."

\* the bullet of one of the top three contributions
DriverBullet(item) ==
    LET formatted_value == FormatFeatureValue(item.value)
        delta == Dollars(item.shap_value, 2)
        lead == item.feature \o " (" \o formatted_value \o ") "
    IN  IF item.shap_value > 0
        THEN lead \o "increased the estimate by about " \o delta \o "."
        ELSE IF item.shap_value < 0
        THEN lead \o "decreased the estimate by about " \o delta \o "."
        ELSE lead \o "had minimal effect on this estimate."

FILLER_BULLET ==
    "Smaller remaining features had limited impact compared with the top drivers."

\* PadBullets with a plausible slip: the loop stops one bullet early
PadBulletsOneShort(bullets) ==
    SubSeq(bullets \o [i \in 1..(4 - Len(bullets)) |-> FILLER_BULLET], 1,
           Min2(5, Max2(4, Len(bullets))))

\* interpretation.py 138-146: while len(bullets) < 5 the filler is appended,
\* and bullets[:5] is returned
PadBullets(bullets) ==
    SubSeq(bullets \o [i \in 1..(5 - Len(bullets)) |-> FILLER_BULLET], 1, 5)

\* generate_fallback_interpretation; prediction_charges in eighths,
\* base_value and the contributions in halves
GenerateFallbackInterpretation(shap_payload, prediction_charges) ==
    LET ranked == SortByAbsDesc(shap_payload.contributions,
                                Len(shap_payload.contributions))
        top_three == SubSeq(ranked, 1, Min2(3, Len(ranked)))
        top_features_source == SubSeq(ranked, 1, Min2(5, Len(ranked)))
        baseline_gap == prediction_charges - 4 * shap_payload.base_value
        baseline_relation == IF baseline_gap >= 0 THEN "above" ELSE "below"
        names == [i \in 1..Min2(2, Len(top_three)) |-> top_three[i].feature]
        driver_names == IF Join(names) # "" THEN Join(names)
                        ELSE "the top features"
        headline ==
            "Estimate is " \o baseline_relation \o " baseline by "
            \o Dollars(baseline_gap, 8) \o ", mainly driven by "
            \o driver_names \o "."
        drivers == [i \in 1..Len(top_three) |-> DriverBullet(top_three[i])]
        remaining == SubSeq(ranked, 4, Len(ranked))
        remaining_net ==
            SumSeq([i \in 1..Len(remaining) |-> remaining[i].shap_value])
        rest ==
            IF remaining = <<>> THEN <<>>
            ELSE <<"The remaining features combined for a net "
                   \o (IF remaining_net >= 0 THEN "upward" ELSE "downward")
                   \o " nudge of about " \o Dollars(remaining_net, 2) \o ".">>
        overall ==
            "Overall, this estimate sits " \o Dollars(baseline_gap, 8) \o " "
            \o baseline_relation \o " the baseline average, primarily shaped by "
            \o driver_names \o "."
        bullets == drivers \o rest \o <<overall>>
    IN  InterpretationPayload(
            headline,
            PadBullets(bullets),
            <<"This explanation is for this prediction only.",
              "Contributions reflect model behavior, not causation.">>,
            [i \in 1..Len(top_features_source) |->
                [feature |-> top_features_source[i].feature,
                 direction |->
                     TopFeatureDirection(top_features_source[i].shap_value),
                 strength |-> TopFeatureStrength(i - 1)]])

\* a str where the code may hold None instead
Some(v) == [is_none |-> FALSE, v |-> v]

\* f"{type(exc).__name__}: {exc}"; the message of an exception the code
\* does not raise itself is left empty
ErrorText(exc) ==
    exc \o ": "
    \o (IF exc = "RuntimeError"
        THEN "OpenAI returned no structured interpretation payload" ELSE "")

\* the narrative service as interpret_shap meets it: building the client
\* raises or not, and responses.parse raises, returns no parsed payload
\* (None) or returns a parsed payload
LlmOutcome(client_raises, parse) ==
    [client_raises |-> client_raises, parse |-> parse]

LOW_SIGNAL_ERROR ==
    "LowSignalInterpretation: LLM output was too generic; fallback applied"

\* interpret_shap: Ok(<<interpretation, llm_error>>), or the exception that
\* building the client raised
InterpretShap(shap_payload, prediction_charges, api_key, llm) ==
    LET fallback ==
            GenerateFallbackInterpretation(shap_payload, prediction_charges)
        ranked == SortByAbsDesc(shap_payload.contributions,
                                Len(shap_payload.contributions))
        top_three == SubSeq(ranked, 1, Min2(3, Len(ranked)))
    IN  IF api_key = "" THEN Ok(<<fallback, Some("OPENAI_API_KEY missing")>>)
        ELSE IF llm.client_raises THEN Raise("OpenAIError")
        ELSE IF ~llm.parse.ok THEN Ok(<<fallback, Some(ErrorText(llm.parse.error))>>)
        ELSE IF llm.parse.value = None
        THEN Ok(<<fallback, Some(ErrorText("RuntimeError"))>>)
        ELSE LET interpretation ==
                     [llm.parse.value EXCEPT
                         !.bullets = SubSeq(CleanBullets(@), 1,
                                            Min2(5, Len(CleanBullets(@))))]
                 top_feature_names ==
                     [i \in 1..Len(top_three) |-> top_three[i].feature]
             IN  IF IsLowSignalInterpretation(interpretation,
                                              top_feature_names)
                 THEN Ok(<<fallback, Some(LOW_SIGNAL_ERROR)>>)
                 ELSE Ok(<<interpretation, None>>)

(***************************************************************************)
(* main.py and api/prediction.py: startup and the predict handler.         *)
(***************************************************************************)
\* a model object is known by the name of its class
ModelObject(class_name) == [class_name |-> class_name]

\* load_model: a directory holds a TabularPredictor; a file is read by
\* joblib.load and, when that fails, by pickle.load
LoadModel(artifact) ==
    IF ~artifact.exists THEN Raise("FileNotFoundError")
    ELSE IF artifact.type = "unreadable" THEN Raise("UnpicklingError")
    ELSE Ok(artifact.object)

SUPPORTS_TREE_TOKENS == <<"tree", "forest", "xgb", "lgbm", "catboost", "boost">>

\* _supports_tree_shap
SupportsTreeShap(model) ==
    \E k \in 1..Len(SUPPORTS_TREE_TOKENS) :
        Contains(Lower(model.class_name), SUPPORTS_TREE_TOKENS[k])

\* Path(settings.model_path).name
MODEL_VERSION == "ag_insurance"

\* str(exc) of an exception a loader raised; the message of an exception
\* the code does not raise itself is left empty
LoadErrorText(what, loaded) ==
    IF loaded.error = "FileNotFoundError" THEN what \o " file not found at: path"
    ELSE IF loaded.error = "ValueError"
    THEN "Transformer artifact must be InsuranceDataTransformer"
    ELSE ""

\* Lifespan with a plausible slip: one try block around both loads, so a
\* failed model load leaves the transformer unloaded and without an error
LifespanOneTry(files) ==
    LET model == LoadModel(files.model_path)
        loaded == LoadTransformer(files.transformer_path)
    IN  [model |-> IF model.ok THEN model.value ELSE None,
         model_version |-> IF model.ok THEN Some(MODEL_VERSION) ELSE None,
         model_error |->
             IF model.ok THEN None ELSE Some(LoadErrorText("Model", model)),
         transformer |-> IF model.ok /\ loaded.ok THEN loaded.value ELSE None,
         transformer_error |->
             IF ~model.ok \/ loaded.ok THEN None
             ELSE Some(LoadErrorText("Transformer", loaded))]

\* lifespan, up to the yield: app.state after startup
Lifespan(files) ==
    LET model == LoadModel(files.model_path)
        loaded == LoadTransformer(files.transformer_path)
    IN  [model |-> IF model.ok THEN model.value ELSE None,
         model_version |-> IF model.ok THEN Some(MODEL_VERSION) ELSE None,
         model_error |->
             IF model.ok THEN None ELSE Some(LoadErrorText("Model", model)),
         transformer |-> IF loaded.ok THEN loaded.value ELSE None,
         transformer_error |->
             IF loaded.ok THEN None
             ELSE Some(LoadErrorText("Transformer", loaded))]

\* lifespan.py: create_lifespan, up to the yield.  config.py's Settings has
\* no transform_params_path, so the argument of the second load raises
\* AttributeError inside the try block
CreateLifespan(files) ==
    LET model == LoadModel(files.model_path) IN
    [model |-> IF model.ok THEN model.value ELSE None,
     model_version |-> IF model.ok THEN Some(MODEL_VERSION) ELSE None,
     model_error |->
         IF model.ok THEN None ELSE Some(LoadErrorText("Model", model)),
     transform_params |-> None,
     transform_params_error |->
         Some("'Settings' object has no attribute 'transform_params_path'")]

UpperChar(c) ==
    LET at == {k \in 1..Len(ASCII_LOWERCASE) : Char(ASCII_LOWERCASE, k) = c}
    IN  IF at = {} THEN c ELSE Char(ASCII_UPPERCASE, CHOOSE k \in at : TRUE)

\* feature.replace("_", " ").capitalize()
RECURSIVE SpacedFrom(_, _)
SpacedFrom(s, i) ==
    IF i > Len(s) THEN ""
    ELSE (IF Char(s, i) = "_" THEN " " ELSE Char(s, i)) \o SpacedFrom(s, i + 1)

FeatureLabel(feature) ==
    LET spaced == SpacedFrom(feature, 1) IN
    IF spaced = "" THEN ""
    ELSE UpperChar(Char(spaced, 1)) \o Lower(SubSeq(spaced, 2, Len(spaced)))

\* s.strip("'\"")
RECURSIVE StripQuotes(_)
StripQuotes(s) ==
    IF s = "" THEN s
    ELSE IF Char(s, 1) \in {"'", "\""} THEN StripQuotes(SubSeq(s, 2, Len(s)))
    ELSE IF Char(s, Len(s)) \in {"'", "\""}
    THEN StripQuotes(SubSeq(s, 1, Len(s) - 1))
    ELSE s

\* _format_extrapolation_warning: the text f"{feature_label} is {direction}
\* the trained range ({low:.0f}-{high:.0f}). You entered {value:.0f}.", or
\* f"Region '{region}' was not present in training data.", given by its
\* parts.  value, low and high are the numbers read back from the raw text:
\* the value in full, the bounds as printed to two decimals
FormatExtrapolationWarning(raw_warning) ==
    IF raw_warning.kind = "range"
    THEN LET units == UnitsPerOne(raw_warning.col)
             value == raw_warning.value
             low == raw_warning.low_2f
             high == raw_warning.high_2f
         IN  [kind |-> "range",
              feature_label |-> FeatureLabel(raw_warning.col),
              direction |-> IF 100 * value < low * units THEN "below"
                            ELSE IF 100 * value > high * units THEN "above"
                            ELSE "outside",
              low_0f |-> RoundHalfEven(low, 100),
              high_0f |-> RoundHalfEven(high, 100),
              value_0f |-> RoundHalfEven(value, units)]
    ELSE IF raw_warning.kind = "region"
    THEN [kind |-> "region", region |-> StripQuotes(raw_warning.value)]
    ELSE raw_warning

\* predict_charges: the outcome and the transformer after it; predicted is
\* what model.predict does: it raises, or returns the transformed prediction
PredictCharges(request, transformer_, predicted) ==
    LET transformed == TransformFeatures(transformer_, PayloadToFrame(request))
    IN  [outcome |->
             IF ~transformed.outcome.ok THEN transformed.outcome
             ELSE IF ~predicted.ok THEN predicted
             ELSE Ok(InverseTransformTarget(transformed.self, predicted.value)),
         self |-> transformed.self]

\* compute_shap_contributions of the handler's request: the outcome and the
\* transformer after it
Explain(model, transformer_, request, tree, kernel, top_k) ==
    LET transformed == TransformFeatures(transformer_, PayloadToFrame(request))
    IN  [outcome |->
             IF ~transformed.outcome.ok THEN transformed.outcome
             ELSE LET computed ==
                          ComputeShapContributions(
                              SupportsTreeShap(model), tree, kernel,
                              Columns(transformed.outcome.value), top_k)
                  IN  IF computed.ok
                      THEN Ok(WithValues(computed.value, request))
                      ELSE computed,
         self |-> transformed.self]

\* numpy's global random state after compute_shap_contributions of the
\* handler's request
NpRandomAfterExplain(model, transformer_, request, tree, kernel) ==
    LET transformed == TransformFeatures(transformer_, PayloadToFrame(request))
    IN  IF ~transformed.outcome.ok THEN NpRandomSeed(SHAP_RANDOM_SEED)
        ELSE NpRandomAfterShap(SupportsTreeShap(model), tree, kernel,
                               Columns(transformed.outcome.value))

\* HTTPException(status_code, detail), raised from the exception cause
HttpError(status_code, detail, cause) ==
    [ok |-> FALSE, error |-> "HTTPException", status_code |-> status_code,
     detail |-> detail, cause |-> cause]

Unavailable(what, error) ==
    what \o " artifact is unavailable."
    \o (IF error # None /\ error.v # "" THEN " " \o error.v ELSE "")

\* main.py 146-156: the calls of the try block, _format_extrapolation_warning
\* once for each warning
ChargeCalls(warnings) ==
    <<"check_extrapolation">>
    \o [i \in 1..Len(warnings) |-> "_format_extrapolation_warning"]
    \o <<"predict_charges">>

\* main.py 146-161: the outcome of check_extrapolation and predict_charges
\* (the same lines open api/prediction.py: run_prediction)
ChargeStageFrom(state, checked, charged) ==
    IF ~checked.ok
    THEN [outcome |-> HttpError(500, "Prediction failed: ",
                                Some(checked.error)),
          self |-> state.transformer,
          ran |-> <<"check_extrapolation">>]
    ELSE IF ~charged.outcome.ok
    THEN [outcome |-> HttpError(500, "Prediction failed: ",
                                Some(charged.outcome.error)),
          self |-> charged.self,
          ran |-> ChargeCalls(checked.value)]
    ELSE [outcome |->
              Ok([warnings |->
                      [i \in 1..Len(checked.value) |->
                          FormatExtrapolationWarning(checked.value[i])],
                  charges |-> charged.outcome.value,
                  ran |-> ChargeCalls(checked.value)]),
          self |-> charged.self,
          ran |-> ChargeCalls(checked.value)]

\* ChargeStage with a plausible slip: the transformer is looked at before
\* the model
ChargeStageTransformerFirst(state, request, predicted) ==
    IF state.transformer = None
    THEN [outcome |->
              HttpError(500,
                        Unavailable("Transformer", state.transformer_error),
                        None),
          self |-> state.transformer,
          ran |-> <<>>]
    ELSE IF state.model = None
    THEN [outcome |-> HttpError(503, Unavailable("Model", state.model_error),
                                None),
          self |-> state.transformer,
          ran |-> <<>>]
    ELSE ChargeStageFrom(
             state,
             CheckExtrapolation(state.transformer, PayloadToFrame(request)),
             PredictCharges(request, state.transformer, predicted))

\* main.py 121-161: the availability checks, then the warnings and the
\* charge
ChargeStage(state, request, predicted) ==
    IF state.model = None
    THEN [outcome |-> HttpError(503, Unavailable("Model", state.model_error),
                                None),
          self |-> state.transformer,
          ran |-> <<>>]
    ELSE IF state.transformer = None
    THEN [outcome |->
              HttpError(500,
                        Unavailable("Transformer", state.transformer_error),
                        None),
          self |-> state.transformer,
          ran |-> <<>>]
    ELSE ChargeStageFrom(
             state,
             CheckExtrapolation(state.transformer, PayloadToFrame(request)),
             PredictCharges(request, state.transformer, predicted))

\* schemas.py: PredictResponse
PredictResponse(charges, model_version, extrapolation_warnings, shap, interpretation, interpretation_source, explainability_error, llm_error) ==
    [charges |-> charges, model_version |-> model_version,
     extrapolation_warnings |-> extrapolation_warnings, shap |-> shap,
     interpretation |-> interpretation,
     interpretation_source |-> interpretation_source,
     explainability_error |-> explainability_error, llm_error |-> llm_error]

\* numpy's global random state after a predict handler: untouched when the
\* handler stopped before attribution
NpRandomAfterRequest(rng, state, request, tree, kernel, staged) ==
    IF ~staged.outcome.ok THEN rng
    ELSE NpRandomAfterExplain(state.model, staged.self, request, tree, kernel)

\* BuildResponse with a plausible slip: the narrative is labelled 'OPENAI'
\* whenever interpret_shap returned, whatever llm_error it returned
BuildResponseLabelsByReturn(state, staged, explained, shap_payload, narrated) ==
    [response |->
        Ok(PredictResponse(
            staged.charges, state.model_version, staged.warnings,
            shap_payload,
            IF shap_payload = None THEN None
            ELSE IF narrated.ok THEN narrated.value[1]
            ELSE GenerateFallbackInterpretation(shap_payload, staged.charges),
            IF shap_payload = None THEN None
            ELSE IF narrated.ok
            THEN Some("OPENAI") ELSE Some("fallback"),
            IF explained.outcome.ok THEN None
            ELSE Some(ErrorText(explained.outcome.error)),
            IF shap_payload = None THEN None
            ELSE IF narrated.ok THEN narrated.value[2]
            ELSE Some(ErrorText(narrated.error)))),
     self |-> explained.self,
     ran |-> staged.ran \o <<"compute_shap_contributions">>
             \o (IF shap_payload = None THEN <<>>
                 ELSE IF narrated.ok THEN <<"interpret_shap">>
                 ELSE <<"interpret_shap", "generate_fallback_interpretation">>)
             \o <<"PredictResponse">>]

\* main.py 179-204: the response built from the stages' results; when
\* interpret_shap raised the narrative is the composer's
BuildResponse(state, staged, explained, shap_payload, narrated) ==
    [response |->
        Ok(PredictResponse(
            staged.charges, state.model_version, staged.warnings,
            shap_payload,
            IF shap_payload = None THEN None
            ELSE IF narrated.ok THEN narrated.value[1]
            ELSE GenerateFallbackInterpretation(shap_payload, staged.charges),
            IF shap_payload = None THEN None
            ELSE IF narrated.ok /\ narrated.value[2] = None
            THEN Some("OPENAI") ELSE Some("fallback"),
            IF explained.outcome.ok THEN None
            ELSE Some(ErrorText(explained.outcome.error)),
            IF shap_payload = None THEN None
            ELSE IF narrated.ok THEN narrated.value[2]
            ELSE Some(ErrorText(narrated.error)))),
     self |-> explained.self,
     ran |-> staged.ran \o <<"compute_shap_contributions">>
             \o (IF shap_payload = None THEN <<>>
                 ELSE IF narrated.ok THEN <<"interpret_shap">>
                 ELSE <<"interpret_shap", "generate_fallback_interpretation">>)
             \o <<"PredictResponse">>]

\* main.py 179-186: interpret_shap on the attribution payload, when there
\* is one
NarrativeStage(state, api_key, llm, staged, explained, shap_payload) ==
    BuildResponse(state, staged, explained, shap_payload,
                  IF shap_payload = None THEN Raise("not called")
                  ELSE InterpretShap(shap_payload, staged.charges, api_key,
                                     llm))

\* main.py 171-177: shap_payload is the attribution result, or None when
\* compute_shap_contributions raised
PayloadStage(state, api_key, llm, staged, explained) ==
    NarrativeStage(state, api_key, llm, staged, explained,
                   IF explained.outcome.ok THEN explained.outcome.value
                   ELSE None)

\* main.py 163-170: compute_shap_contributions after a successful charge
AttributionStage(state, api_key, top_k, request, tree, kernel, llm, staged) ==
    IF ~staged.outcome.ok
    THEN [response |-> staged.outcome, self |-> staged.self,
          ran |-> staged.ran]
    ELSE PayloadStage(state, api_key, llm, staged.outcome.value,
                      Explain(state.model, staged.self, request, tree, kernel,
                              top_k))

\* main.py: _run_prediction; the response, and the transformer after it
RunPrediction(state, api_key, top_k, request, predicted, tree, kernel, llm) ==
    AttributionStage(state, api_key, top_k, request, tree, kernel, llm,
                     ChargeStage(state, request, predicted))

\* f"{x:.2f}" of the amount num / den
Fixed2(num, den) ==
    LET cents == RoundHalfEven(100 * Abs(num), den)
        rest == cents % 100
    IN  (IF num < 0 THEN "-" ELSE "") \o ToString(cents \div 100) \o "."
        \o (IF rest < 10 THEN "0" ELSE "") \o ToString(rest)

\* services/llm_interpretation.py: generate_fallback_interpretation
LegacyFallbackInterpretation(shap_payload, prediction_charges) ==
    LET contributions == shap_payload.contributions
        top_three == SubSeq(contributions, 1, Min2(3, Len(contributions)))
        top_features_source ==
            SubSeq(contributions, 1, Min2(5, Len(contributions)))
        bullets ==
            [i \in 1..Len(top_three) |->
                "Feature " \o top_three[i].feature \o " contributed "
                \o Fixed2(top_three[i].shap_value, 2) \o " to result."]
            \o [i \in 1..(3 - Len(top_three)) |->
                "Feature baseline contributed 0.00 to result."]
    IN  InterpretationPayload(
            "Predicted charge is " \o Fixed2(prediction_charges, 8) \o ".",
            bullets,
            <<"This explanation is for this prediction only.",
              "Contributions reflect model behavior, not causation.">>,
            [i \in 1..Len(top_features_source) |->
                [feature |-> top_features_source[i].feature,
                 direction |->
                     TopFeatureDirection(top_features_source[i].shap_value),
                 strength |-> TopFeatureStrength(i - 1)]])

\* services/llm_interpretation.py: interpret_shap
LegacyInterpretShap(shap_payload, prediction_charges, api_key, llm) ==
    LET fallback ==
            LegacyFallbackInterpretation(shap_payload, prediction_charges)
    IN  IF api_key = "" THEN Ok(<<fallback, Some("OPENAI_API_KEY missing")>>)
        ELSE IF llm.client_raises THEN Raise("OpenAIError")
        ELSE IF ~llm.parse.ok THEN Ok(<<fallback, Some(ErrorText(llm.parse.error))>>)
        ELSE IF llm.parse.value = None
        THEN Ok(<<fallback, Some(ErrorText("RuntimeError"))>>)
        ELSE Ok(<<llm.parse.value, None>>)

\* the PredictResponse classes of the source tree
RESPONSE_MODELS == {"schemas.py", "schemas/predict.py"}

\* schemas/predict.py: PredictResponse, which declares three fields and
\* ignores the other keyword arguments
LegacyPredictResponse(charges, model_version, extrapolation_warnings) ==
    [charges |-> charges, model_version |-> model_version,
     extrapolation_warnings |-> extrapolation_warnings]

\* api/prediction.py 117-124: the response; what interpret_shap returned, a
\* pair, is handed to PredictResponse as the interpretation;
\* response_model is the class PredictResponse names
ApiBuildResponse(state, api_key, response_model, staged, explained, narrated) ==
    LET shap_payload == IF explained.outcome.ok THEN explained.outcome.value
                        ELSE None
        asked == explained.outcome.ok /\ api_key # ""
        explainability_error ==
            IF explained.outcome.ok THEN None
            ELSE Some(ErrorText(explained.outcome.error))
        llm_error ==
            IF ~explained.outcome.ok THEN None
            ELSE IF api_key = "" THEN Some("OpenAI not configured")
            ELSE IF narrated.ok THEN None
            ELSE Some(ErrorText(narrated.error))
    IN  [response |->
            IF response_model = "schemas/predict.py"
            THEN Ok(LegacyPredictResponse(staged.charges, state.model_version,
                                          staged.warnings))
            ELSE IF asked /\ narrated.ok THEN Raise("ValidationError")
            ELSE Ok(PredictResponse(
                     staged.charges, state.model_version, staged.warnings,
                     shap_payload, None, None, explainability_error,
                     llm_error)),
         self |-> explained.self,
         ran |-> staged.ran \o <<"compute_shap_contributions">>
                 \o (IF asked THEN <<"interpret_shap">> ELSE <<>>)
                 \o <<"PredictResponse">>]

\* api/prediction.py 104-115: interpret_shap runs only when there is a
\* payload and a key is set
ApiNarrativeStage(state, api_key, llm, response_model, staged, explained) ==
    ApiBuildResponse(state, api_key, response_model, staged, explained,
                     IF explained.outcome.ok /\ api_key # ""
                     THEN LegacyInterpretShap(explained.outcome.value,
                                              staged.charges, api_key, llm)
                     ELSE Raise("not called"))

\* api/prediction.py 87-102: compute_shap_contributions after a successful
\* charge
ApiAttributionStage(state, api_key, top_k, request, tree, kernel, llm, response_model, staged) ==
    IF ~staged.outcome.ok
    THEN [response |-> staged.outcome, self |-> staged.self,
          ran |-> staged.ran]
    ELSE ApiNarrativeStage(state, api_key, llm, response_model,
                           staged.outcome.value,
                           Explain(state.model, staged.self, request, tree,
                                   kernel, top_k))

\* api/prediction.py: run_prediction; the response, and the transformer
\* after it
ApiRunPrediction(state, api_key, top_k, request, predicted, tree, kernel, llm, response_model) ==
    ApiAttributionStage(state, api_key, top_k, request, tree, kernel, llm,
                        response_model,
                        ChargeStage(state, request, predicted))

(***************************************************************************)
(* Inputs of the model.                                                    *)
(***************************************************************************)
\* column names of a direct aggregation call: raw features, one-hot and
\* interaction columns, and names the aggregator does not know
AggNames ==
    {"age", "smoker", "region", "region_southwest", "smoker_bmi", "age_bmi",
     "bmi_smoker", "regional"}

\* contributions of a direct aggregation call, in halves: -3.0 and 10.0
AggValues == {-6, 20}

\* contributions an explainer returns, in halves: -1.0 and 2.0
ShapValues == {-2, 4}

\* expected_value an explainer returns
BaseValues == {13}

\* the regions the training rows of the loaded transformer may hold
TrainRegions == {REGION_LITERALS[i] : i \in 1..MaxRegions}

\* EXPLAIN_TOP_K in the environment: <<>> when unset, <<n>> when set to n
EnvTopK == {<<>>} \cup {<<n>> : n \in (-1)..MaxEnvTopK}

\* the arrays an explainer may return for the contribution vector v
ShapeTags ==
    {"vec", "vec_short", "vec_long", "mat", "cube", "cube_bad", "scalar",
     "list_mat", "empty_list"}

ShapedRaw(tag, v) ==
    LET w == Len(v) IN
    CASE tag = "vec" -> RawValues(FALSE, <<NdArray(<<w>>, v)>>)
      [] tag = "vec_short" ->
            RawValues(FALSE, <<NdArray(<<w - 1>>, SubSeq(v, 1, w - 1))>>)
      [] tag = "vec_long" ->
            RawValues(FALSE, <<NdArray(<<w + 1>>, Append(v, v[1]))>>)
      [] tag = "mat" -> RawValues(FALSE, <<NdArray(<<1, w>>, v)>>)
      [] tag = "cube" -> RawValues(FALSE, <<NdArray(<<1, 1, w>>, v)>>)
      [] tag = "cube_bad" ->
            RawValues(FALSE, <<NdArray(<<1, 1, w + 1>>, Append(v, v[1]))>>)
      [] tag = "scalar" -> RawValues(FALSE, <<NdArray(<<>>, <<v[1]>>)>>)
      [] tag = "list_mat" ->
            RawValues(TRUE, <<NdArray(<<1, w>>, v), NdArray(<<1, w>>, v)>>)
      [] tag = "empty_list" -> RawValues(TRUE, <<>>)

ExplainerOutcomes(v) ==
    {ExplainerRaises}
    \cup {ExplainerReturns(ShapedRaw(tag, v), b) :
              tag \in ShapeTags, b \in BaseValues}

\* the sequences over S of length n that do not decrease
SortedSeqs(S, n) ==
    {q \in [1..n -> S] : \A i \in 1..(n - 1) : q[i] <= q[i + 1]}

TrainSizes == (MaxTrainRows - 1)..MaxTrainRows

\* ages, bmi in two-hundredths (20, 24, 26, 60) and charges in eighths (1,
\* 2, 3, 12) that training rows hold
AgeValues == {20, 60}

BmiValues == {4000, 4800, 5200, 12000}

ChargeValues == {8, 16, 24, 96}

\* a training frame of n rows; the regions R fill the region column in turn
TrainingFrame(n, age, bmi, charges, R) ==
    LET levels == SortedRegions(R, 1) IN
    [age |-> age,
     sex |-> [i \in 1..n |-> IF i % 2 = 1 THEN "female" ELSE "male"],
     bmi |-> bmi,
     children |-> [i \in 1..n |-> i - 1],
     smoker |-> [i \in 1..n |-> IF 2 * i <= n THEN "no" ELSE "yes"],
     region |-> [i \in 1..n |-> levels[((i - 1) % Len(levels)) + 1]],
     charges |-> charges]

PlainAges(n) == [i \in 1..n |-> 20 + 10 * i]

PlainBmi(n) == [i \in 1..n |-> 200 * (18 + 4 * i)]

\* bmi of the eighths 22.125, 26.125, ..., which no two decimals print
FineBmi(n) == [i \in 1..n |-> 200 * (18 + 4 * i) + 25]

PlainCharges(n) == [i \in 1..n |-> 8 * i]

RegionSets == SUBSET TrainRegions \ {{}}

\* training frames that differ in age, bmi and region
FeatureFrames ==
    UNION {{TrainingFrame(n, age, bmi, PlainCharges(n), R) :
                age \in {PlainAges(n), [i \in 1..n |-> 20]},
                bmi \in SortedSeqs(BmiValues, n) \cup {FineBmi(n)},
                R \in RegionSets} : n \in TrainSizes}

\* training frames that differ in charges
TargetFrames ==
    UNION {{TrainingFrame(n, PlainAges(n), PlainBmi(n), charges, TrainRegions) :
                charges \in SortedSeqs(ChargeValues, n)} : n \in TrainSizes}

\* training frames of the transformer the service loads
ServiceFrames ==
    {TrainingFrame(MaxTrainRows, PlainAges(MaxTrainRows),
                   PlainBmi(MaxTrainRows), PlainCharges(MaxTrainRows), R) :
         R \in RegionSets}

\* the request of the service: age 40, male, bmi 30, one child, smoker
ServiceRequests ==
    {[age |-> 40, sex |-> "male", bmi |-> 6000, children |-> 1,
      smoker |-> "yes", region |-> REGION_LITERALS[1]]}

\* raw rows handed to the transformer at inference; the regions hold one
\* that no training frame holds
RawRequests ==
    [age : {20, 64}, sex : {"female", "male"}, bmi : {2000, 4800, 12000},
     children : {1}, smoker : {"no", "yes"},
     region : {REGION_LITERALS[i] : i \in 1..(MaxRegions + 1)}]
    \cup [age : {40}, sex : {"male"}, bmi : {4424, 4425, 5200}, children : {0, 9},
          smoker : {"yes"}, region : {REGION_LITERALS[1]}]

Reversed(s) == [i \in 1..Len(s) |-> s[Len(s) + 1 - i]]

\* the same row with its columns in schema order and in reverse order
RawFrames ==
    UNION {{PayloadToFrame(r), Reversed(PayloadToFrame(r))} : r \in RawRequests}

\* frame without the column col
DropColumn(frame, col) == SelectSeq(frame, LAMBDA pair : pair[1] # col)

\* the row of the service request with one of its six columns absent
PartialFrames ==
    {DropColumn(PayloadToFrame(r), FEATURE_COLUMNS[i]) :
        r \in ServiceRequests, i \in 1..Len(FEATURE_COLUMNS)}

\* what the transformer path can hold: no file, an unreadable file, a saved
\* transformer (fitted or not), the parameter dictionary of the fitted
\* values, a predictor, a scaler
Artifacts ==
    {[exists |-> FALSE], Artifact("unreadable", <<>>),
     Saved(NewTransformer), Artifact("TabularPredictor", <<>>)}
    \cup {Saved(FitTransformer(train)) : train \in FeatureFrames}
    \cup {Artifact("dict", FitTransformer(train)) : train \in ServiceFrames}
    \cup {Artifact("StandardScaler", FitTransformer(train).feature_scaler) :
              train \in ServiceFrames}

\* the training frame whose bmi bounds no two decimals print
FineFrame ==
    TrainingFrame(MaxTrainRows, PlainAges(MaxTrainRows), FineBmi(MaxTrainRows),
                  PlainCharges(MaxTrainRows), TrainRegions)

\* what the service finds at its two paths
ModelArtifacts ==
    {[exists |-> FALSE],
     Artifact("directory", ModelObject("TabularPredictor")),
     Artifact("file", ModelObject("XGBRegressor")),
     Artifact("file", None)}

TransformerArtifacts ==
    {[exists |-> FALSE], Saved(NewTransformer),
     Artifact("dict", FitTransformer(FineFrame))}
    \cup {Saved(FitTransformer(train)) : train \in ServiceFrames \cup {FineFrame}}

ServiceFiles ==
    [model_path : ModelArtifacts, transformer_path : TransformerArtifacts]

\* OPENAI_API_KEY: not set, or set
ApiKeys == {"", "sk-test"}

\* the requests of the predict handler: the service request; a bmi of 22.12,
\* just under the lowest bmi of FineFrame; a bmi of 34.13, over every
\* training bmi; an age over every training age in a region no training
\* frame holds
PredictRequests ==
    UNION {{r, [r EXCEPT !.bmi = 4424], [r EXCEPT !.bmi = 6826],
            [r EXCEPT !.age = 90, !.region = REGION_LITERALS[MaxRegions + 1]]} :
               r \in ServiceRequests}

\* what model.predict does: it raises, or returns a transformed prediction
Predictions == {Raise("PredictError"), Ok(6931)}

\* the contribution, in halves, an explainer gives the column name
ShapOf(name) ==
    CASE name = "smoker" -> 20
      [] name = "bmi" -> 12
      [] name = "age" -> 6
      [] name = "children" -> -4
      [] name = "sex" -> 2
      [] name = "smoker_bmi" -> 8
      [] name = "age_bmi" -> -2
      [] OTHER -> 1

\* the contribution vectors of the handler's explainers: one that ranks the
\* features, one of zeros
ServiceShapVectors(names) ==
    {[i \in 1..Len(names) |-> ShapOf(names[i])], [i \in 1..Len(names) |-> 0]}

\* the runs of the tree explainer and of the kernel explainer that the
\* handler meets
ServiceExplainerRuns(names, supports_tree) ==
    IF names = <<>>
    THEN {[tree |-> ExplainerRaises, kernel |-> ExplainerRaises]}
    ELSE UNION {
        {[tree |-> ExplainerRaises, kernel |-> ExplainerRaises],
         [tree |-> ExplainerRaises,
          kernel |-> ExplainerReturns(ShapedRaw("mat", v), b)]}
        \cup (IF supports_tree
              THEN {[tree |-> ExplainerReturns(ShapedRaw(tag, v), b),
                     kernel |-> ExplainerRaises] : tag \in {"vec", "vec_short"}}
              ELSE {}) : v \in ServiceShapVectors(names), b \in BaseValues}

\* a narrative that names the leading features, one bullet twice, and a
\* narrative of generic bullets
ServiceNarratives ==
    {InterpretationPayload(
         "Smoking and BMI drive this estimate.",
         <<"Smoker status (yes) pushed the estimate up by about $12.",
           "BMI of 30 pushed the estimate up by about $8.",
           "  smoker status (yes)  pushed the estimate up by about $12. ",
           "Age 40 added about $3.",
           "The remaining features moved the estimate down a little.",
           "Overall the predicted charge is below the base value.",
           "This bullet is one too many.">>,
         <<"Local, model-dependent explanation.">>,
         <<[feature |-> "smoker", direction |-> "increases",
            strength |-> "high"]>>),
     InterpretationPayload(
         "Your estimate",
         <<"The predicted charge reflects your profile.",
           "The base value is the average prediction.",
           "Smoker status matters."  >>,
         <<>>, <<>>)}

\* the narrative service as the handler meets it
LlmOutcomes ==
    {LlmOutcome(TRUE, Raise("not called")),
     LlmOutcome(FALSE, Raise("APITimeoutError")),
     LlmOutcome(FALSE, Ok(None))}
    \cup {LlmOutcome(FALSE, Ok(n)) : n \in ServiceNarratives}

\* the bullets a narrative is made of: bullets that name a feature (one of
\* them in capitals) and a generic bullet
BulletPool ==
    {"Smoker raised it.", "BMI raised it.", "Age raised it.",
     "Children lowered it.", "The predicted charge is high."}

MaxBullets == 3      \* most bullets of a narrative made from the pool

\* the narratives of at most n bullets from the pool
PoolNarratives(n) ==
    UNION {{InterpretationPayload("Headline", bullets, <<>>, <<>>) :
                bullets \in [1..k -> BulletPool]} : k \in 0..n}

\* the training frame that holds every training region
FullFrame ==
    TrainingFrame(MaxTrainRows, PlainAges(MaxTrainRows), PlainBmi(MaxTrainRows),
                  PlainCharges(MaxTrainRows), TrainRegions)

\* attribution payloads handed to interpret_shap: those compute_shap_contributions
\* returns for the service request, cut to two, to three and to eight entries
NarrativePayloads ==
    LET fitted == FitTransformer(FullFrame) IN
    {Explain(ModelObject("XGBRegressor"), fitted, request,
             ExplainerReturns(ShapedRaw("vec", v), b), ExplainerRaises,
             top_k).outcome.value :
        request \in ServiceRequests,
        v \in ServiceShapVectors(fitted.feature_columns),
        b \in BaseValues, top_k \in {2, 3, DEFAULT_EXPLAIN_TOP_K}}

\* an attribution payload with its contributions in the opposite order
ReversedPayload(p) ==
    [p EXCEPT !.contributions =
        [i \in 1..Len(@) |-> @[Len(@) + 1 - i]]]

\* an attribution payload in which the feature contributed exactly nothing
ZeroedPayload(p, feature) ==
    [p EXCEPT !.contributions =
        [i \in 1..Len(@) |->
            IF @[i].feature = feature
            THEN [@[i] EXCEPT !.shap_value = 0, !.abs_shap_value = 0]
            ELSE @[i]]]

\* an attribution payload with only its first n contributions
CutPayload(p, n) ==
    [p EXCEPT !.contributions = SubSeq(@, 1, Min2(n, Len(@)))]

\* attribution payloads the composer is called with directly: ranked as
\* compute_shap_contributions leaves them, in the opposite order, with two
\* contributions of zero, and with no, one and four contributions
ComposerPayloads ==
    NarrativePayloads
        \cup {CutPayload(p, n) : p \in NarrativePayloads, n \in {0, 1, 4}}
        \cup {ReversedPayload(p) : p \in NarrativePayloads}
        \cup {ZeroedPayload(ZeroedPayload(ReversedPayload(p), "bmi"), "sex") :
                  p \in NarrativePayloads}

\* a bullet in which the name age stands inside a longer word
AVERAGE_BULLET == "An average profile."

\* narratives of two bullets, one of them the average bullet
AverageNarratives ==
    {InterpretationPayload("Headline", bullets, <<>>, <<>>) :
        bullets \in {<<AVERAGE_BULLET, b>> : b \in BulletPool}
                        \cup {<<b, AVERAGE_BULLET>> : b \in BulletPool}}

\* the lists of feature names the low-signal judgment is called with
TopFeatureLists ==
    {<<>>, <<"smoker", "bmi", "age">>,
     <<"smoker", "bmi", "age", "children", "sex">>}

NotCalled == Raise("not called")

(***************************************************************************)
(* Actions.                                                                *)
(***************************************************************************)
\* a call of _aggregate_contributions on names and values of one length
AggregateCall ==
    /\ call = "idle"
    /\ \E n \in 0..MaxLen :
       \E names \in [1..n -> AggNames], values \in [1..n -> AggValues] :
          /\ call' = "aggregate"
          /\ feature_names' = names
          /\ shap_input' = values
          /\ shap_row' = values
          /\ aggregated' = AggregateContributions(names, values)
    /\ UNCHANGED <<procVars, svcVars, explain_top_k, payload, trVars>>

\* a call of compute_shap_contributions; the kernel explainer runs only when
\* the tree branch was not taken or failed
ComputeShapCall ==
    /\ call = "idle"
    /\ \E request \in ServiceRequests :
       \E transformed \in {TransformFeatures(transformer, PayloadToFrame(request))} :
       \E names \in {IF transformed.outcome.ok
                     THEN Columns(transformed.outcome.value) ELSE <<>>} :
       /\ transformer' = transformed.self
       /\ feature_names' = names
       /\ call' = "compute_shap"
       /\ IF ~transformed.outcome.ok
          THEN /\ payload' = transformed.outcome
               /\ shap_input' = <<>>
               /\ shap_row' = <<>>
               /\ aggregated' = <<>>
               /\ np_random' = NpRandomSeed(SHAP_RANDOM_SEED)
          ELSE
          \E v \in [1..Len(names) -> ShapValues], supports_tree \in BOOLEAN :
          \E tree \in IF supports_tree THEN ExplainerOutcomes(v)
                      ELSE {ExplainerRaises} :
          \E kernel \in IF supports_tree /\ ExplainBranch(tree, names).ok
                        THEN {ExplainerRaises}
                        ELSE ExplainerOutcomes(v) :
          \E local \in {ComputeLocalShap(supports_tree, tree, kernel, names)} :
             /\ shap_input' = [supports_tree |-> supports_tree,
                               tree |-> tree, kernel |-> kernel]
             /\ shap_row' = IF local.ok THEN local.value.shap_row ELSE <<>>
             /\ aggregated' =
                    IF local.ok
                    THEN AggregateContributions(names, local.value.shap_row)
                    ELSE <<>>
             /\ payload' = ComputeShapContributions(
                    supports_tree, tree, kernel, names, explain_top_k)
             /\ np_random' = NpRandomAfterShap(supports_tree, tree, kernel,
                                               names)
    /\ UNCHANGED <<composed, ran, svcVars, explain_top_k, train_df, targ, tresult>>

\* fit_transformer on a training frame, once per transformer object
FitCall(frames) ==
    /\ call = "idle"
    /\ train_df = <<>>
    /\ \E train \in frames :
          /\ train_df' = train
          /\ transformer' = FitTransformer(train)
    /\ call' = "fit"
    /\ targ' = <<>>
    /\ tresult' = NotCalled
    /\ UNCHANGED <<procVars, svcVars, aggVars>>

FitFeatureFrames == FitCall(FeatureFrames)

FitTargetFrames == FitCall(TargetFrames)

\* transform_features on a raw row
TransformFeaturesCall ==
    /\ call = "idle"
    /\ \E frame \in RawFrames \cup PartialFrames :
          LET done == TransformFeatures(transformer, frame) IN
          /\ targ' = frame
          /\ tresult' = done.outcome
          /\ transformer' = done.self
    /\ call' = "transform_features"
    /\ UNCHANGED <<procVars, svcVars, aggVars, train_df>>

\* check_extrapolation on a raw row
CheckExtrapolationCall ==
    /\ call = "idle"
    /\ \E frame \in RawFrames \cup PartialFrames :
          /\ targ' = frame
          /\ tresult' = CheckExtrapolation(transformer, frame)
    /\ call' = "check_extrapolation"
    /\ UNCHANGED <<procVars, svcVars, aggVars, train_df, transformer>>

\* services/predictor.py: check_extrapolation of a request against the
\* fitted values
PredictorCheckExtrapolationCall ==
    /\ call = "idle"
    /\ \E request \in RawRequests :
          /\ targ' = PayloadToFrame(request)
          /\ tresult' = Ok(PredictorCheckExtrapolation(request, transformer))
    /\ call' = "predictor.check_extrapolation"
    /\ UNCHANGED <<procVars, svcVars, aggVars, train_df, transformer>>

\* transform_features_and_target on a row of the training frame, or on that
\* row with other charges (a row of the test frame)
TransformFeaturesAndTargetCall ==
    /\ call = "idle"
    /\ train_df # <<>>
    /\ \E i \in Rows(train_df), charges \in ChargeValues :
          LET frame == SetColumn(RowOf(train_df, i), TARGET_COLUMN, charges)
              done == TransformFeaturesAndTarget(transformer, frame)
          IN  /\ targ' = frame
              /\ tresult' = done.outcome
              /\ transformer' = done.self
    /\ call' = "transform_features_and_target"
    /\ UNCHANGED <<procVars, svcVars, aggVars, train_df>>

\* inverse_transform_target on the target transform_features_and_target
\* returned (evaluate_model.py) or on a prediction of the model
InverseTransformTargetCall ==
    /\ \/ /\ call = "transform_features_and_target"
          /\ tresult.ok
          /\ targ' = [y_transformed |-> tresult.value.y,
                      charges |-> <<GetColumn(targ, TARGET_COLUMN)>>]
       \/ /\ call = "idle"
          /\ \E y \in {0, 6931, 25649} :
                targ' = [y_transformed |-> y, charges |-> <<>>]
    /\ tresult' = Ok(InverseTransformTarget(transformer, targ'.y_transformed))
    /\ call' = "inverse_transform_target"
    /\ UNCHANGED <<procVars, svcVars, aggVars, train_df, transformer>>

\* the caller is done with the result
\* load_transformer on the artifact at the path
LoadTransformerCall ==
    /\ call = "idle"
    /\ \E loaded \in {LoadTransformer(disk.transformer_path)} :
          /\ tresult' = loaded
          /\ transformer' = IF loaded.ok THEN loaded.value ELSE transformer
    /\ call' = "load_transformer"
    /\ targ' = <<>>
    /\ UNCHANGED <<procVars, svcVars, aggVars, train_df>>

\* InsuranceDataTransformer.load on the artifact at the path
TransformerLoadCall ==
    /\ call = "idle"
    /\ \E loaded \in {TransformerLoad(disk.transformer_path)} :
          /\ tresult' = loaded
          /\ transformer' = IF loaded.ok THEN loaded.value ELSE transformer
    /\ call' = "load"
    /\ targ' = <<>>
    /\ UNCHANGED <<procVars, svcVars, aggVars, train_df>>

\* no file at a path
NoArtifact == [exists |-> FALSE]

NoFiles == [model_path |-> NoArtifact, transformer_path |-> NoArtifact]

\* app.state as lifespan sets it before loading, and after shutdown
AppStateNone ==
    [model |-> None, transformer |-> None, model_error |-> None,
     transformer_error |-> None, model_version |-> None]

\* app.state after the shutdown of lifespan.py's create_lifespan
LegacyAppStateNone ==
    [model |-> None, transform_params |-> None, model_error |-> None,
     transform_params_error |-> None, model_version |-> None]

\* lifespan.py: the application starts under create_lifespan
CreateLifespanCall ==
    /\ call = "idle"
    /\ app_state \in {AppStateNone, LegacyAppStateNone}
    /\ app_state' = CreateLifespan(disk)
    /\ call' = "create_lifespan"
    /\ UNCHANGED <<procVars, disk, openai_api_key, response, aggVars, trVars>>

\* the application stops: the lines after the yield
ShutdownCall ==
    /\ call = "idle"
    /\ app_state \notin {AppStateNone, LegacyAppStateNone}
    /\ app_state' = IF "transform_params" \in DOMAIN app_state
                    THEN LegacyAppStateNone ELSE AppStateNone
    /\ call' = "shutdown"
    /\ UNCHANGED <<procVars, disk, openai_api_key, response, aggVars, trVars>>

\* lifespan: the application starts and loads its two artifacts
LifespanCall ==
    /\ call = "idle"
    /\ app_state = AppStateNone
    /\ app_state' = Lifespan(disk)
    /\ call' = "lifespan"
    /\ UNCHANGED <<procVars, disk, openai_api_key, response, aggVars, trVars>>

\* the inputs of one request: the payload, and what the model, the
\* explainers and the narrative service do with it
HandlerInputs ==
    LET columns == IF app_state.transformer = None THEN <<>>
                   ELSE app_state.transformer.feature_columns
        supports_tree == app_state.model # None /\ SupportsTreeShap(app_state.model)
    IN  {[request |-> request, predicted |-> predicted, tree |-> runs.tree,
          kernel |-> runs.kernel, llm |-> llm] :
            request \in PredictRequests, predicted \in Predictions,
            runs \in ServiceExplainerRuns(columns, supports_tree),
            llm \in IF openai_api_key = ""
                    THEN {LlmOutcome(FALSE, Raise("not called"))}
                    ELSE LlmOutcomes}

\* main.py: POST /predict, served by _run_prediction
RunPredictionCall ==
    /\ call = "idle"
    /\ app_state # AppStateNone
    /\ \E in \in HandlerInputs :
       \E done \in {RunPrediction(app_state, openai_api_key, explain_top_k,
                                  in.request, in.predicted, in.tree, in.kernel,
                                  in.llm)} :
          /\ targ' = in
          /\ response' = done.response
          /\ ran' = done.ran
          /\ app_state' = [app_state EXCEPT !.transformer = done.self]
          /\ np_random' = NpRandomAfterRequest(
                 np_random, app_state, in.request, in.tree, in.kernel,
                 ChargeStage(app_state, in.request, in.predicted))
    /\ call' = "_run_prediction"
    /\ UNCHANGED <<composed, disk, openai_api_key, aggVars, transformer, train_df,
                   tresult>>

\* api/v1/predict.py: POST /predict, served by run_prediction
ApiRunPredictionCall ==
    /\ call = "idle"
    /\ app_state # AppStateNone
    /\ \E in \in HandlerInputs, response_model \in RESPONSE_MODELS :
       \E done \in {ApiRunPrediction(app_state, openai_api_key, explain_top_k,
                                     in.request, in.predicted, in.tree,
                                     in.kernel, in.llm, response_model)} :
          /\ targ' = in @@ [response_model |-> response_model]
          /\ response' = done.response
          /\ ran' = done.ran
          /\ app_state' = [app_state EXCEPT !.transformer = done.self]
          /\ np_random' = NpRandomAfterRequest(
                 np_random, app_state, in.request, in.tree, in.kernel,
                 ChargeStage(app_state, in.request, in.predicted))
    /\ call' = "run_prediction"
    /\ UNCHANGED <<composed, disk, openai_api_key, aggVars, transformer, train_df,
                   tresult>>

\* _is_low_signal_interpretation on a narrative and a list of names
IsLowSignalInterpretationCall ==
    /\ call = "idle"
    /\ \E interpretation \in PoolNarratives(MaxBullets) \cup ServiceNarratives
                                   \cup AverageNarratives,
          top_features \in TopFeatureLists :
          /\ targ' = [interpretation |-> interpretation,
                      top_features |-> top_features]
          /\ tresult' = Ok(IsLowSignalInterpretation(interpretation,
                                                     top_features))
    /\ call' = "_is_low_signal_interpretation"
    /\ UNCHANGED <<procVars, svcVars, aggVars, train_df, transformer>>

\* the first direct composer call is kept; a later call is noted on it
Noted(log, name) ==
    IF log = <<>> THEN log
    ELSE <<[log[1] EXCEPT !.since = @ \cup {name}]>>

\* interpret_shap on an attribution payload and a charge, with one of llms
\* as what the narrative service does
InterpretShapWith(llms) ==
    /\ call = "idle"
    /\ \E shap_payload \in NarrativePayloads, prediction_charges \in {23},
          llm \in llms :
          /\ targ' = [payload |-> shap_payload,
                      prediction_charges |-> prediction_charges, llm |-> llm]
          /\ tresult' = InterpretShap(shap_payload, prediction_charges,
                                      openai_api_key, llm)
    /\ call' = "interpret_shap"
    /\ composed' = Noted(composed, "interpret_shap")
    /\ UNCHANGED <<np_random, ran, svcVars, aggVars, train_df, transformer>>

InterpretShapCall ==
    InterpretShapWith(LlmOutcomes
                          \cup {LlmOutcome(FALSE, Ok(n)) :
                                    n \in PoolNarratives(MaxBullets - 1)})

InterpretShapPlain == InterpretShapWith(LlmOutcomes)

\* generate_fallback_interpretation called directly
GenerateFallbackInterpretationCall ==
    /\ call = "idle"
    /\ \E shap_payload \in ComposerPayloads, prediction_charges \in {23} :
       \E narrative \in {GenerateFallbackInterpretation(shap_payload,
                                                        prediction_charges)} :
          /\ targ' = [payload |-> shap_payload,
                      prediction_charges |-> prediction_charges]
          /\ tresult' = Ok(narrative)
          /\ composed' =
                 IF composed = <<>>
                 THEN <<[payload |-> shap_payload,
                         prediction_charges |-> prediction_charges,
                         narrative |-> narrative, since |-> {}]>>
                 ELSE Noted(composed, "generate_fallback_interpretation")
    /\ call' = "generate_fallback_interpretation"
    /\ UNCHANGED <<np_random, ran, svcVars, aggVars, train_df, transformer>>

\* the response is sent, or startup is over
Respond ==
    /\ call \in {"lifespan", "create_lifespan", "shutdown", "_run_prediction",
                 "run_prediction"}
    /\ call' = "idle"
    /\ targ' = <<>>
    /\ response' = NotCalled
    /\ ran' = <<>>
    /\ UNCHANGED <<np_random, composed, disk, app_state, openai_api_key, aggVars,
                   transformer, train_df, tresult>>

Return ==
    /\ call \in {"fit", "transform_features", "check_extrapolation",
                 "transform_features_and_target", "inverse_transform_target",
                 "load_transformer", "load", "predictor.check_extrapolation",
                 "_is_low_signal_interpretation", "interpret_shap",
                 "generate_fallback_interpretation"}
    /\ call' = "idle"
    /\ targ' = <<>>
    /\ tresult' = NotCalled
    /\ UNCHANGED <<procVars, svcVars, aggVars, train_df, transformer>>

(***************************************************************************)
(* Specifications.                                                         *)
(***************************************************************************)
AggIdle ==
    /\ feature_names = <<>>
    /\ shap_input = <<>>
    /\ shap_row = <<>>
    /\ aggregated = <<>>
    /\ payload = NotCalled

\* the process as its imports left it, no narrative composed
ProcIdle ==
    /\ np_random = NpRandomSeed(RANDOM_SEED)
    /\ composed = <<>>
    /\ ran = <<>>

\* no artifact on disk, no application started, no key, no request served
SvcIdle ==
    /\ disk = NoFiles
    /\ app_state = AppStateNone
    /\ openai_api_key = ""
    /\ response = NotCalled
    /\ ProcIdle

\* the service after startup: settings read, the fitted transformer loaded
Init ==
    /\ call = "idle"
    /\ explain_top_k \in {ExplainTopKFromEnv(e) : e \in EnvTopK}
    /\ AggIdle
    /\ \E train \in ServiceFrames :
          /\ train_df = train
          /\ transformer = FitTransformer(train)
    /\ targ = <<>>
    /\ tresult = NotCalled
    /\ SvcIdle

Next == ComputeShapCall

Spec == Init /\ [][Next]_vars

\* a transformer object after construction, before fit
InitTransformer ==
    /\ call = "idle"
    /\ explain_top_k = DEFAULT_EXPLAIN_TOP_K
    /\ AggIdle
    /\ transformer = NewTransformer
    /\ train_df = <<>>
    /\ targ = <<>>
    /\ tresult = NotCalled
    /\ SvcIdle

\* the aggregator called on its own
NextAggregate == AggregateCall

SpecAggregate == InitTransformer /\ [][NextAggregate]_vars

\* the transformer fitted and used on raw rows
NextTransformer ==
    \/ FitFeatureFrames
    \/ TransformFeaturesCall
    \/ CheckExtrapolationCall
    \/ PredictorCheckExtrapolationCall
    \/ InverseTransformTargetCall
    \/ Return

SpecTransformer == InitTransformer /\ [][NextTransformer]_vars

\* the transformer fitted on frames that differ in features or in charges,
\* and used on raw rows
NextFit ==
    \/ FitFeatureFrames
    \/ FitTargetFrames
    \/ TransformFeaturesCall
    \/ CheckExtrapolationCall
    \/ Return

SpecFit == InitTransformer /\ [][NextFit]_vars

\* the transformer fitted and used on the target
NextTarget ==
    \/ FitTargetFrames
    \/ TransformFeaturesAndTargetCall
    \/ InverseTransformTargetCall
    \/ Return

SpecTarget == InitTransformer /\ [][NextTarget]_vars

\* the service before startup: the settings read, the artifacts on disk
InitService ==
    /\ call = "idle"
    /\ explain_top_k \in {ExplainTopKFromEnv(<<>>), ExplainTopKFromEnv(<<3>>)}
    /\ AggIdle
    /\ transformer = NewTransformer
    /\ train_df = <<>>
    /\ targ = <<>>
    /\ tresult = NotCalled
    /\ disk \in ServiceFiles
    /\ app_state = AppStateNone
    /\ openai_api_key \in ApiKeys
    /\ response = NotCalled
    /\ ProcIdle

NextService ==
    \/ LifespanCall
    \/ RunPredictionCall
    \/ ApiRunPredictionCall
    \/ Respond

SpecService == InitService /\ [][NextService]_vars

\* the application started and stopped, under either lifespan
NextStartup ==
    \/ LifespanCall
    \/ CreateLifespanCall
    \/ ShutdownCall
    \/ Respond

SpecStartup == InitService /\ [][NextStartup]_vars

\* the narrative functions called on their own, with and without a key
InitNarrative ==
    /\ call = "idle"
    /\ explain_top_k = DEFAULT_EXPLAIN_TOP_K
    /\ AggIdle
    /\ transformer = NewTransformer
    /\ train_df = <<>>
    /\ targ = <<>>
    /\ tresult = NotCalled
    /\ disk = NoFiles
    /\ app_state = AppStateNone
    /\ openai_api_key \in ApiKeys
    /\ response = NotCalled
    /\ ProcIdle

NextNarrative ==
    \/ IsLowSignalInterpretationCall
    \/ InterpretShapCall
    \/ Return

SpecNarrative == InitNarrative /\ [][NextNarrative]_vars

\* the composer called directly, again and again, between other calls
NextComposer ==
    \/ GenerateFallbackInterpretationCall
    \/ InterpretShapPlain
    \/ Return

SpecComposer == InitNarrative /\ [][NextComposer]_vars

\* a process that finds some artifact at the transformer path and loads it
InitLoad ==
    /\ call = "idle"
    /\ explain_top_k = DEFAULT_EXPLAIN_TOP_K
    /\ AggIdle
    /\ transformer = NewTransformer
    /\ train_df = <<>>
    /\ targ = <<>>
    /\ tresult = NotCalled
    /\ disk \in [model_path : {NoArtifact}, transformer_path : Artifacts]
    /\ app_state = AppStateNone
    /\ openai_api_key = ""
    /\ response = NotCalled
    /\ ProcIdle

NextLoad ==
    \/ LoadTransformerCall
    \/ TransformerLoadCall
    \/ Return

SpecLoad == InitLoad /\ [][NextLoad]_vars

(***************************************************************************)
(* Properties of the attribution aggregator.                               *)
(***************************************************************************)
RawFeatures == Range(RAW_FEATURE_ORDER)

RECURSIVE SumShap(_)
SumShap(items) ==
    IF items = <<>> THEN 0 ELSE items[1].shap_value + SumShap(Tail(items))

\* the contributions of the columns i of names whose name satisfies Test
RECURSIVE SumWhere(_, _, _, _)
SumWhere(Test(_), names, values, i) ==
    IF i > Len(names) THEN 0
    ELSE (IF Test(names[i]) THEN values[i] ELSE 0)
         + SumWhere(Test, names, values, i + 1)

\* a name that is no raw feature, no region_ column and no interaction
IsOtherName(name) ==
    /\ name \notin RawFeatures
    /\ ~StartsWith(name, "region_")
    /\ name \notin {"smoker_bmi", "age_bmi"}

\* C1: the contributions of all entries _aggregate_contributions returns (the
\* six raw-feature buckets and every extra bucket) sum to the sum of the
\* input contribution vector.
C1_SumConserved ==
    call = "aggregate" => SumShap(aggregated) = SumSeq(shap_row)

\* a call whose columns hold an interaction, a one-hot column and an extra
\* name twice
C1_Witness ==
    /\ call = "aggregate"
    /\ \E i, j, k \in 1..Len(feature_names) :
          /\ feature_names[i] = "bmi_smoker"
          /\ i # j /\ feature_names[j] = "bmi_smoker"
          /\ feature_names[k] = "smoker_bmi"
    /\ SumShap(aggregated) # 0

\* C3: each expanded column is routed by its name: a raw feature's name adds
\* the whole amount to that bucket, a region_ name to the region bucket,
\* smoker_bmi half to smoker and half to bmi, age_bmi half to age and half to
\* bmi, and any other name to the extra bucket of that name alone.
C3_RoutedByName ==
    call = "aggregate" =>
      LET Whole(f) ==
              LET T(n) == n = f \/ (f = "region" /\ n \notin RawFeatures
                                     /\ StartsWith(n, "region_"))
              IN  SumWhere(T, feature_names, shap_row, 1)
          Halved(f) ==
              LET T(n) == \/ n = "smoker_bmi" /\ f \in {"smoker", "bmi"}
                          \/ n = "age_bmi" /\ f \in {"age", "bmi"}
              IN  SumWhere(T, feature_names, shap_row, 1)
          others == {n \in Range(feature_names) : IsOtherName(n)}
      IN  /\ Len(aggregated) = Len(RAW_FEATURE_ORDER) + Cardinality(others)
          /\ \A i \in 1..Len(RAW_FEATURE_ORDER) :
                /\ aggregated[i].feature = RAW_FEATURE_ORDER[i]
                /\ 2 * aggregated[i].shap_value =
                       2 * Whole(RAW_FEATURE_ORDER[i])
                       + Halved(RAW_FEATURE_ORDER[i])
          /\ \A n \in others :
                \E i \in (Len(RAW_FEATURE_ORDER) + 1)..Len(aggregated) :
                   /\ aggregated[i].feature = n
                   /\ aggregated[i].value = "derived"
                   /\ aggregated[i].shap_value =
                          LET T(m) == m = n
                          IN  SumWhere(T, feature_names, shap_row, 1)

\* the interaction split of the spec: smoker_bmi alone, of 10.0, gives
\* smoker 5.0 and bmi 5.0
C3_Witness ==
    /\ call = "aggregate"
    /\ feature_names = <<"smoker_bmi">>
    /\ shap_row = <<20>>
    /\ aggregated[5].feature = "smoker" /\ aggregated[5].shap_value = 10
    /\ aggregated[3].feature = "bmi" /\ aggregated[3].shap_value = 10

(***************************************************************************)
(* Properties of compute_shap_contributions.                               *)
(***************************************************************************)
Computed == call = "compute_shap" /\ payload.ok

Contributions == payload.value.contributions

HasOneEntryPerRawFeature(items) ==
    \A f \in RawFeatures :
        Cardinality({i \in 1..Len(items) : items[i].feature = f}) = 1

\* the contribution values that zip pairs with a feature name
PairedValues ==
    SubSeq(shap_row, 1, Min2(Len(shap_row), Len(feature_names)))

\* C2, as claimed: for every configured top-K the result has one entry for
\* each of the six raw features and its contributions sum to the sum of the
\* contribution vector (read here on the vectors of one value per column
\* only).
C2_AsClaimed ==
    (Computed /\ Len(shap_row) = Len(feature_names)) =>
      /\ HasOneEntryPerRawFeature(Contributions)
      /\ SumShap(Contributions) = SumSeq(shap_row)

\* C2, amended: for every configured top-K of at least six the result has one
\* entry for each of the six raw features, and its contributions sum to the
\* sum of the contribution values that are paired with a feature column (the
\* whole vector when it has one value per column); a smaller top-K returns
\* top-K entries only.
C2_SixBucketsFromTopK6 ==
    Computed =>
      /\ explain_top_k >= Len(RAW_FEATURE_ORDER) =>
            /\ HasOneEntryPerRawFeature(Contributions)
            /\ Len(Contributions) = Len(RAW_FEATURE_ORDER)
            /\ SumShap(Contributions) = SumSeq(PairedValues)
      /\ explain_top_k < Len(RAW_FEATURE_ORDER) =>
            Len(Contributions) = explain_top_k

\* the default top-K on a vector of one value per column, with a sum that is
\* not zero
C2_Witness ==
    /\ Computed
    /\ explain_top_k = DEFAULT_EXPLAIN_TOP_K
    /\ Len(shap_row) = Len(feature_names)
    /\ SumSeq(shap_row) # 0
    /\ SumShap(Contributions) = SumSeq(shap_row)

\* the explainer's run whose output was used
UsedOutcome ==
    IF shap_input.supports_tree
       /\ ExplainBranch(shap_input.tree, feature_names).ok
    THEN shap_input.tree
    ELSE shap_input.kernel

UsedArray ==
    LET raw == UsedOutcome.raw_values IN
    IF raw.is_list /\ raw.elems = <<>> THEN NdArray(<<0>>, <<>>)
    ELSE raw.elems[1]

\* C4: attribution fails unless the contribution vector obtained from the
\* attribution method has one value per expanded feature column: a result is
\* returned only for a vector of that width that the method produced.
C4_ShapeErrorOnMismatch ==
    Computed =>
      /\ Len(shap_row) = Len(feature_names)
      /\ Len(UsedArray.shape) >= 1

\* C5: the returned contributions are ordered by absolute contribution, not
\* increasing; equal absolute contributions keep the order of the aggregated
\* list (raw-feature schema order, then extras); and the list is the first
\* top_k entries of that ordering, so no omitted entry outranks a returned
\* one.
Position(item) == CHOOSE i \in 1..Len(aggregated) : aggregated[i] = item

Outranks(x, y) ==
    \/ x.abs_shap_value > y.abs_shap_value
    \/ x.abs_shap_value = y.abs_shap_value /\ Position(x) < Position(y)

C5_SortedStableTopK ==
    Computed =>
      LET c == Contributions IN
      /\ Len(c) = Min2(explain_top_k, Len(aggregated))
      /\ Range(c) \subseteq Range(aggregated)
      /\ \A i, j \in 1..Len(c) : i < j => Outranks(c[i], c[j])
      /\ \A x \in Range(aggregated) \ Range(c) :
            \A i \in 1..Len(c) : Outranks(c[i], x)

\* a truncated result whose last entry ties with an omitted entry, and which
\* holds two entries of equal absolute contribution
C5_Witness ==
    /\ Computed
    /\ Len(Contributions) < Len(aggregated)
    /\ \E x \in Range(aggregated) \ Range(Contributions) :
          x.abs_shap_value =
              Contributions[Len(Contributions)].abs_shap_value
    /\ \E i \in 1..(Len(Contributions) - 1) :
          /\ Contributions[i].abs_shap_value =
                 Contributions[i + 1].abs_shap_value
          /\ Contributions[i].abs_shap_value > 0

(***************************************************************************)
(* Properties of the transformer.                                          *)
(***************************************************************************)
Transformed == call = "transform_features" /\ tresult.ok

Fitted == train_df # <<>>

\* a row that holds the six raw columns
ValidRow(frame) == \A c \in Range(FEATURE_COLUMNS) : HasColumn(frame, c)

\* the clamp of the winsorize bounds, written out
Clamped(x, bounds) ==
    IF x < bounds[1] THEN bounds[1] ELSE IF x > bounds[2] THEN bounds[2] ELSE x

\* C6, as claimed: for every charges value y of the training rows,
\* inverse_transform_target of the target transform_features_and_target
\* produced returns y.
C6_AsClaimed ==
    (/\ call = "inverse_transform_target"
     /\ targ.charges # <<>>
     /\ targ.charges[1] \in Range(train_df.charges))
    => tresult.value = targ.charges[1]

\* C6, amended: for every charges value y, of the training rows or not,
\* inverse_transform_target of the target transform_features_and_target
\* produced returns y clamped to the winsorize bounds of charges: y itself
\* when y lies within the bounds, the nearer bound otherwise.
C6_RoundTripClamps ==
    (call = "inverse_transform_target" /\ targ.charges # <<>>)
    => tresult.value =
           Clamped(targ.charges[1], transformer.winsorize_bounds.charges)

\* a training value within the bounds comes back, through a target that is
\* not the value itself
C6_Witness ==
    /\ call = "inverse_transform_target"
    /\ targ.charges # <<>>
    /\ targ.charges[1] \in Range(train_df.charges)
    /\ targ.charges[1] > transformer.winsorize_bounds.charges[1]
    /\ targ.charges[1] < transformer.winsorize_bounds.charges[2]
    /\ targ.y_transformed # targ.charges[1]
    /\ tresult.value = targ.charges[1]

\* the levels of the training frame, in alphabetical order
TrainedLevels ==
    SelectSeq(REGION_LITERALS, LAMBDA r : r \in Range(train_df.region))

\* C7: whatever the order of the input columns, the columns of
\* transform_features' output are feature_columns in the order fixed at fit:
\* age, sex, bmi, children, smoker, one region_<level> column per fitted
\* level in sorted order, smoker_bmi, age_bmi.
C7_ColumnsInFitOrder ==
    (call = "transform_features" /\ Fitted /\ ValidRow(targ)) =>
      /\ tresult.ok
      /\ Columns(tresult.value) = transformer.feature_columns
      /\ Columns(tresult.value) =
             <<"age", "sex", "bmi", "children", "smoker">>
             \o [i \in 1..Len(TrainedLevels) |-> "region_" \o TrainedLevels[i]]
             \o <<"smoker_bmi", "age_bmi">>

\* a row given with its columns in reverse order to a transformer of two
\* levels
C7_Witness ==
    /\ Transformed
    /\ Columns(targ) = Reversed(FEATURE_COLUMNS)
    /\ Len(TrainedLevels) = 2
    /\ Len(tresult.value) = 9

\* C8: only age and bmi are standardized: sex, children, smoker and the
\* region_<level> columns hold the encoded input, and smoker_bmi and age_bmi
\* are the products of the encoded smoker and the raw age with the clamped,
\* not standardized, bmi.
C8_OnlyAgeAndBmiScaled ==
    Transformed =>
      LET In(c) == GetColumn(targ, c)
          Out(c) == GetColumn(tresult.value, c)
          bounds == transformer.winsorize_bounds.bmi
          bmi == Clamped(In("bmi"), bounds)
          sex == IF In("sex") = "male" THEN 1 ELSE 0
          smoker == IF In("smoker") = "yes" THEN 1 ELSE 0
          n == Len(train_df.age)
          train_bmi == [i \in 1..n |-> Clamped(train_df.bmi[i], bounds)]
      IN  /\ Out("sex") = sex
          /\ Out("children") = In("children")
          /\ Out("smoker") = smoker
          /\ \A i \in 1..Len(TrainedLevels) :
                Out("region_" \o TrainedLevels[i]) =
                    IF In("region") = TrainedLevels[i] THEN 1 ELSE 0
          /\ Out("smoker_bmi") = smoker * bmi
          /\ Out("age_bmi") = In("age") * bmi
          /\ Out("age") = n * In("age") - SumSeq(train_df.age)
          /\ Out("bmi") = n * bmi - SumSeq(train_bmi)

\* a smoker whose bmi is clamped and whose age and bmi are changed by the
\* scaler
C8_Witness ==
    /\ Transformed
    /\ GetColumn(targ, "smoker") = "yes"
    /\ GetColumn(targ, "bmi") > transformer.winsorize_bounds.bmi[2]
    /\ GetColumn(tresult.value, "smoker_bmi") = transformer.winsorize_bounds.bmi[2]
    /\ GetColumn(tresult.value, "age") # GetColumn(targ, "age")
    /\ GetColumn(tresult.value, "bmi") # transformer.winsorize_bounds.bmi[2]

InferenceCalls ==
    {"transform_features", "inverse_transform_target", "check_extrapolation"}

\* C9: no inference call (transform_features, inverse_transform_target,
\* check_extrapolation) changes feature_scaler, target_scaler or any other
\* field of the transformer, fitted or not.
C9_InferenceLeavesStateAlone ==
    [][(call' \in InferenceCalls /\ call' # call) => transformer' = transformer]_vars

\* transform_features has returned a matrix and the scalers are those of fit
C9_Witness ==
    /\ Transformed
    /\ transformer.feature_scaler # None
    /\ transformer = FitTransformer(train_df)

\* C10: transforming the row whose bmi was clamped to the winsorize bounds
\* gives the output of transforming the row itself, and clamping a clamped
\* value changes nothing.
C10_ClampIdempotent ==
    Transformed =>
      LET bounds == transformer.winsorize_bounds.bmi
          once == Winsorize(GetColumn(targ, "bmi"), bounds)
      IN  /\ Winsorize(once, bounds) = once
          /\ TransformFeatures(transformer, SetColumn(targ, "bmi", once)).outcome
                 = tresult

\* a row whose bmi the transform clamps
C10_Witness ==
    /\ Transformed
    /\ \/ GetColumn(targ, "bmi") > transformer.winsorize_bounds.bmi[2]
       \/ GetColumn(targ, "bmi") < transformer.winsorize_bounds.bmi[1]
    /\ GetColumn(tresult.value, "age_bmi") # GetColumn(targ, "age") * GetColumn(targ, "bmi")

(***************************************************************************)
(* Properties of the extrapolation warnings.                               *)
(***************************************************************************)
Checked == call = "check_extrapolation" /\ tresult.ok

\* the warnings about column col among ws
WarningsAbout(ws, col) ==
    SelectSeq(ws, LAMBDA w : w.kind = "range" /\ w.col = col)

\* the observed minimum and maximum of a numeric training column
TrainMin(col) == train_df[col][1]

TrainMax(col) == train_df[col][Len(train_df[col])]

\* x hundredths are the value v of column col printed to two decimals: no
\* further from it than half a hundredth
PrintsToTwoDecimals(col, v, x) ==
    Abs(UnitsPerOne(col) * x - 100 * v) * 2 <= UnitsPerOne(col)

\* C11: check_extrapolation emits no warning for age, bmi or children when
\* the value lies within the training bounds, the bounds included, and
\* exactly one warning for that feature when it lies strictly outside; the
\* warning carries the feature name, the observed value and the training
\* bounds (low, high), which it prints to two decimals.
C11_WarnsOutsideOnly ==
    (Checked /\ Fitted) =>
      \A col \in {"age", "bmi", "children"} :
        LET v == GetColumn(targ, col)
            ws == WarningsAbout(tresult.value, col)
        IN  IF TrainMin(col) <= v /\ v <= TrainMax(col)
            THEN ws = <<>>
            ELSE /\ Len(ws) = 1
                 /\ ws[1].value = v
                 /\ PrintsToTwoDecimals(col, TrainMin(col), ws[1].low_2f)
                 /\ PrintsToTwoDecimals(col, TrainMax(col), ws[1].high_2f)

\* a bmi on the upper bound without a warning, next to an age and children
\* above their bounds with one warning each
C11_Witness ==
    /\ Checked /\ Fitted
    /\ GetColumn(targ, "bmi") = TrainMax("bmi")
    /\ GetColumn(targ, "age") > TrainMax("age")
    /\ GetColumn(targ, "children") > TrainMax("children")
    /\ WarningsAbout(tresult.value, "bmi") = <<>>
    /\ Len(tresult.value) = 2

\* the warnings about the region among ws
RegionWarnings(ws) == SelectSeq(ws, LAMBDA w : w.kind = "region")

\* C13: check_extrapolation emits exactly one warning about the region,
\* carrying the raw region value, when the region is not among the levels
\* of the training frame, and none when it is.
C13_WarnsUnseenRegion ==
    (Checked /\ Fitted) =>
      LET region == GetColumn(targ, "region")
          ws == RegionWarnings(tresult.value)
      IN  IF region \in Range(train_df.region)
          THEN ws = <<>>
          ELSE ws = <<[kind |-> "region", value |-> region]>>

\* a region no training row holds, warned about once, after the warnings
\* about the numeric features
C13_Witness ==
    /\ Checked /\ Fitted
    /\ GetColumn(targ, "region") \notin Range(train_df.region)
    /\ Len(RegionWarnings(tresult.value)) = 1
    /\ Len(tresult.value) > 1
    /\ tresult.value[Len(tresult.value)].kind = "region"

CheckedEither ==
    /\ call \in {"check_extrapolation", "predictor.check_extrapolation"}
    /\ tresult.ok

\* the request whose row the check was given
CheckedRequest ==
    [c \in Range(FEATURE_COLUMNS) |-> GetColumn(targ, c)]

\* the warnings of the check that has run, had the fitted state held the
\* winsorize bounds b instead
WarningsUnderBounds(b) ==
    LET other == [transformer EXCEPT !.winsorize_bounds = b] IN
    IF call = "check_extrapolation"
    THEN CheckExtrapolation(other, targ).value
    ELSE PredictorCheckExtrapolation(CheckedRequest, other)

\* winsorize bounds other than the fitted ones: the full width of the
\* columns, and the observed minimum and maximum
OtherBounds ==
    {[bmi |-> <<0, 100 * UnitsPerOne("bmi")>>, charges |-> <<0, 96>>],
     [bmi |-> <<TrainMin("bmi"), TrainMax("bmi")>>,
      charges |-> transformer.winsorize_bounds.charges]}

\* the warnings that name a bmi out of some range
BmiWarnings(ws) ==
    SelectSeq(ws, LAMBDA w : w.kind \in {"range", "supported"} /\ w.col = "bmi")

\* C14: the extrapolation warnings depend only on raw_feature_ranges and the
\* fitted region levels, never on winsorize_bounds: a fitted state that
\* differs only in winsorize_bounds gives the same warnings for the same
\* input, and a bmi inside the observed training minimum and maximum gives
\* no bmi warning.
C14_WarningsIgnoreWinsorizeBounds ==
    (CheckedEither /\ Fitted /\ ValidRow(targ)) =>
      /\ \A b \in OtherBounds : WarningsUnderBounds(b) = tresult.value
      /\ (/\ TrainMin("bmi") <= GetColumn(targ, "bmi")
          /\ GetColumn(targ, "bmi") <= TrainMax("bmi"))
         => BmiWarnings(tresult.value) = <<>>

(***************************************************************************)
(* Properties of loading.                                                  *)
(***************************************************************************)
Loaded == call \in {"load_transformer", "load"}

\* the file holds a readable object that is not an InsuranceDataTransformer
WrongType ==
    /\ disk.transformer_path.exists
    /\ disk.transformer_path.type
           \notin {"unreadable", "InsuranceDataTransformer"}

Handled == call \in {"_run_prediction", "run_prediction"}

\* the handler's steps on its inputs, taken again one by one
HandledCharge == ChargeStage(app_state, targ.request, targ.predicted)

HandledShap ==
    Explain(app_state.model, app_state.transformer, targ.request, targ.tree,
            targ.kernel, explain_top_k).outcome

\* the model and the transformer were loaded and the charge was predicted
ChargePredicted ==
    /\ Handled
    /\ app_state.model # None
    /\ app_state.transformer # None
    /\ HandledCharge.outcome.ok

\* the delivered warnings about the numeric column col
DeliveredAbout(col) ==
    SelectSeq(response.value.extrapolation_warnings,
              LAMBDA w : w.kind = "range" /\ w.feature_label = FeatureLabel(col))

\* C12: every extrapolation warning delivered for a numeric feature names the
\* correct direction: 'above' when the value is greater than the training
\* maximum, 'below' when it is less than the training minimum, whatever the
\* fitted bounds; no emitted warning carries another direction word.
C12_DirectionNamed ==
    (Handled /\ response.ok) =>
        \A i \in 1..Len(app_state.transformer.raw_feature_ranges) :
            LET r == app_state.transformer.raw_feature_ranges[i]
                value == targ.request[r.col]
                named == DeliveredAbout(r.col)
            IN  /\ value > r.high =>
                       Len(named) = 1 /\ named[1].direction = "above"
                /\ value < r.low =>
                       Len(named) = 1 /\ named[1].direction = "below"
                /\ \A k \in 1..Len(named) :
                       named[k].direction \in {"above", "below"}

\* attribution failed; the narrative service failed
AttributionFailed == ChargePredicted /\ ~HandledShap.ok

NarrativeFailed ==
    /\ ChargePredicted
    /\ HandledShap.ok
    /\ openai_api_key # ""
    /\ \/ targ.llm.client_raises
       \/ ~targ.llm.parse.ok
       \/ targ.llm.parse.value = None

\* the response reports an error in the field of that name
Reports(field) ==
    /\ field \in DOMAIN response.value
    /\ response.value[field] # None

\* C17: when the model and the transformer are loaded and the charge
\* prediction succeeds, the handler returns a response carrying that charge,
\* whether or not attribution or narrative generation fails; an attribution
\* failure is reported in explainability_error, a narrative failure in
\* llm_error, and neither makes the response an error.
C17_ChargeSurvivesFailures ==
    ChargePredicted =>
        /\ response.ok
        /\ response.value.charges = HandledCharge.outcome.value.charges
        /\ AttributionFailed => Reports("explainability_error")
        /\ NarrativeFailed => Reports("llm_error")

\* the external narrative as interpret_shap keeps it: its first five cleaned
\* bullets
Cleaned(narrative) ==
    [narrative EXCEPT !.bullets = SubSeq(CleanBullets(@), 1,
                                         Min2(5, Len(CleanBullets(@))))]

\* the names against which interpret_shap judges a narrative
JudgedNames ==
    LET ranked == SortByAbsDesc(HandledShap.value.contributions,
                                Len(HandledShap.value.contributions))
    IN  [i \in 1..Min2(3, Len(ranked)) |-> ranked[i].feature]

\* the narrative service gave a narrative, without error, that was judged
\* not low-signal
ExternalAccepted ==
    /\ openai_api_key # ""
    /\ ~targ.llm.client_raises
    /\ targ.llm.parse.ok
    /\ targ.llm.parse.value # None
    /\ ~IsLowSignalInterpretation(Cleaned(targ.llm.parse.value), JudgedNames)

\* C18: when attribution succeeded and the narrative service is not
\* configured, raises, returns no parsed payload or returns a narrative
\* judged low-signal, the narrative returned is exactly the deterministic
\* composer's output for the same attributions and charge; the external
\* narrative is returned only when it came without error and was judged not
\* low-signal.
C18_FallbackIsComposer ==
    (ChargePredicted /\ HandledShap.ok) =>
        /\ response.ok
        /\ "interpretation" \in DOMAIN response.value
        /\ IF ExternalAccepted
           THEN response.value.interpretation = Cleaned(targ.llm.parse.value)
           ELSE response.value.interpretation =
                    GenerateFallbackInterpretation(
                        HandledShap.value,
                        HandledCharge.outcome.value.charges)

(***************************************************************************)
(* Properties of the low-signal judgment.                                  *)
(***************************************************************************)
\* the bullet mentions the feature name, whatever the case of its letters
Mentions(bullet, name) == Contains(Lower(bullet), Lower(name))

\* how many of the bullets mention one of the names
MentionCount(bullets, names) ==
    Cardinality({i \in 1..Len(bullets) :
                    \E k \in 1..Len(names) : Mentions(bullets[i], names[k])})

\* three distinct bullets each mention a different one of the first three
\* names
ThreeNameThree(bullets, names) ==
    /\ Len(names) >= 3
    /\ \E i, j, k \in 1..Len(bullets) :
          /\ i # j /\ i # k /\ j # k
          /\ Mentions(bullets[i], names[1])
          /\ Mentions(bullets[j], names[2])
          /\ Mentions(bullets[k], names[3])

\* interpret_shap was given a narrative by the narrative service
Narrated ==
    /\ call = "interpret_shap"
    /\ openai_api_key # ""
    /\ ~targ.llm.client_raises
    /\ targ.llm.parse.ok
    /\ targ.llm.parse.value # None

\* the names of the n leading attributions of interpret_shap's payload
LeadingNames(n) ==
    LET ranked == SortByAbsDesc(targ.payload.contributions,
                                Len(targ.payload.contributions))
    IN  [i \in 1..Min2(n, Len(ranked)) |-> ranked[i].feature]

\* C19: a narrative is classified low-signal when fewer than two of its
\* bullets mention a top feature name (so when exactly one does, and when it
\* has fewer than two bullets), and not low-signal when three distinct
\* bullets each name a different top-3 feature; interpret_shap returns the
\* fallback with the low-signal error in the first case and the narrative
\* in the second.  The first case is read with the top three names and with
\* the top five.
C19_LowSignalByMentions ==
    /\ call = "_is_low_signal_interpretation" =>
          LET bullets == targ.interpretation.bullets IN
          /\ MentionCount(bullets, targ.top_features) < 2 => tresult.value
          /\ ThreeNameThree(bullets, targ.top_features) => ~tresult.value
    /\ Narrated =>
          LET bullets == Cleaned(targ.llm.parse.value).bullets IN
          /\ \/ MentionCount(bullets, LeadingNames(3)) < 2
             \/ MentionCount(bullets, LeadingNames(5)) < 2
             => tresult.value[2] = Some(LOW_SIGNAL_ERROR)
          /\ ThreeNameThree(bullets, LeadingNames(3)) =>
                 /\ tresult.value[2] = None
                 /\ tresult.value[1] = Cleaned(targ.llm.parse.value)

\* three bullets of which exactly one mentions a top feature name, judged
\* low-signal
C19_Witness ==
    /\ call = "_is_low_signal_interpretation"
    /\ Len(targ.interpretation.bullets) = 3
    /\ Len(targ.top_features) = 3
    /\ MentionCount(targ.interpretation.bullets, targ.top_features) = 1
    /\ tresult.value

\* C20: the names against which the low-signal judgment counts mentions are
\* those of the top five attributions by absolute contribution: a bullet
\* that names the fourth- or fifth-ranked feature counts, so a narrative
\* with two bullets that mention top-five names is not sent back as
\* low-signal for want of mentions.
C20_TopFiveNamesCount ==
    Narrated =>
        LET bullets == Cleaned(targ.llm.parse.value).bullets IN
        MentionCount(bullets, LeadingNames(5)) >= 2 =>
            tresult.value[2] # Some(LOW_SIGNAL_ERROR)

(***************************************************************************)
(* Properties of the composer.                                             *)
(***************************************************************************)
\* the composer has just been called directly
Composed == call = "generate_fallback_interpretation"

\* the call at hand has the inputs of the first call
SameInputsAsFirst ==
    /\ Composed
    /\ composed # <<>>
    /\ composed[1].payload = targ.payload
    /\ composed[1].prediction_charges = targ.prediction_charges

TaggedContribution(tag) ==
    LET cs == targ.payload.contributions IN
    cs[CHOOSE i \in 1..Len(cs) : cs[i].feature = tag.feature]

\* C22: the composer emits one {direction, strength} tag for each of the (at
\* most five) attributions of largest absolute contribution, in rank order;
\* strength is "high" for rank 0, "medium" for ranks 1 and 2, "low" for ranks
\* 3 and 4; direction is "increases" for a positive contribution, "decreases"
\* for a negative one and "mixed" for exactly zero.
C22_TopFeatureTags ==
    Composed =>
        LET cs == targ.payload.contributions
            tags == tresult.value.top_features
        IN  /\ Len(tags) = Min2(5, Len(cs))
            /\ \A i \in 1..Len(tags) :
                  /\ \E k \in 1..Len(cs) : cs[k].feature = tags[i].feature
                  /\ \A j \in 1..Len(tags) :
                        i # j => tags[i].feature # tags[j].feature
                  /\ DOMAIN tags[i] = {"feature", "direction", "strength"}
                  /\ tags[i].strength =
                         (CASE i = 1 -> "high"
                            [] i \in {2, 3} -> "medium"
                            [] i \in {4, 5} -> "low")
                  /\ LET v == TaggedContribution(tags[i]).shap_value IN
                     tags[i].direction =
                         (CASE v > 0 -> "increases"
                            [] v < 0 -> "decreases"
                            [] v = 0 -> "mixed")
            /\ \A i \in 1..(Len(tags) - 1) :
                  Abs(TaggedContribution(tags[i]).shap_value)
                      >= Abs(TaggedContribution(tags[i + 1]).shap_value)
            /\ \A k \in 1..Len(cs) :
                  (\A i \in 1..Len(tags) : tags[i].feature # cs[k].feature)
                      => Abs(cs[k].shap_value)
                             <= Abs(TaggedContribution(tags[Len(tags)]).shap_value)

\* six contributions given in ascending order, of which five are tagged, with
\* the three directions among the tags
C22_Witness ==
    /\ Composed
    /\ Len(targ.payload.contributions) = 6
    /\ Len(tresult.value.top_features) = 5
    /\ targ.payload.contributions[1].abs_shap_value
           < targ.payload.contributions[6].abs_shap_value
    /\ {tresult.value.top_features[i].direction : i \in 1..5}
           = {"increases", "decreases", "mixed"}

\* the bullet opens with the given words
OpensWith(bullet, words) ==
    Len(bullet) >= Len(words) /\ SubSeq(bullet, 1, Len(words)) = words

\* the bullet is about one contribution of the payload at hand: it opens with
\* the feature's name and its value
IsDriverBullet(bullet) ==
    \E k \in 1..Len(targ.payload.contributions) :
        OpensWith(bullet, targ.payload.contributions[k].feature \o " (")

\* C23: for every AttributionResult, also one with no, one or two
\* contributions, the composer returns exactly five bullets: one per top-three
\* feature present, a remaining-features bullet only when there are more than
\* three contributions, a closing baseline bullet, then filler bullets up to
\* five; and it returns the same two caveats every time.
C23_FiveBulletsTwoCaveats ==
    Composed =>
        LET n == Len(targ.payload.contributions)
            drivers == Min2(3, n)
            rest == IF n > 3 THEN 1 ELSE 0
            bullets == tresult.value.bullets
        IN  /\ Len(bullets) = 5
            /\ \A i \in 1..5 :
                  CASE i <= drivers -> IsDriverBullet(bullets[i])
                    [] i = drivers + rest /\ rest = 1 ->
                          OpensWith(bullets[i],
                                    "The remaining features combined for a net ")
                    [] i = drivers + rest + 1 ->
                          OpensWith(bullets[i], "Overall, this estimate sits ")
                    [] OTHER ->
                          bullets[i] = "Smaller remaining features had limited impact compared with the top drivers."
            /\ tresult.value.caveats =
                   <<"This explanation is for this prediction only.",
                     "Contributions reflect model behavior, not causation.">>

\* the composer called on a payload without contributions: a closing bullet
\* and four fillers
C23_Witness ==
    /\ Composed
    /\ targ.payload.contributions = <<>>
    /\ Len(tresult.value.bullets) = 5
    /\ tresult.value.bullets[5] = tresult.value.bullets[2]

(***************************************************************************)
(* Properties of the process-wide state.                                   *)
(***************************************************************************)
\* C24: under any interleaving of prediction requests, no request writes
\* process-wide shared state: a step of a predict handler leaves the loaded
\* transformer, the model and the other fields of the application state as
\* they were, and leaves numpy's global random state as it was.
C24_RequestsWriteNothingShared ==
    [][call' \in {"_run_prediction", "run_prediction"}
          => /\ app_state' = app_state
             /\ np_random' = np_random]_vars

(***************************************************************************)
(* Properties of startup and shutdown.                                     *)
(***************************************************************************)
\* startup has just ended
Started == call \in {"lifespan", "create_lifespan"}

\* the transformer that startup loaded, and its error, under either name
StartedTransformer ==
    IF call = "create_lifespan" THEN app_state.transform_params
    ELSE app_state.transformer

StartedTransformerError ==
    IF call = "create_lifespan" THEN app_state.transform_params_error
    ELSE app_state.transformer_error

\* the file at the model path holds a pickled None
ModelFileHoldsNone ==
    disk.model_path.exists /\ disk.model_path.object = None

AllFiveNone == \A field \in DOMAIN app_state : app_state[field] = None

\* C28 as stated: after startup exactly one of each artifact's object and
\* error is set, model_version is set exactly when the model object is, and
\* after shutdown all five fields are None.
C28_AsClaimed ==
    /\ Started =>
          /\ (app_state.model = None) # (app_state.model_error = None)
          /\ (StartedTransformer = None) # (StartedTransformerError = None)
          /\ (app_state.model_version # None) = (app_state.model # None)
    /\ call = "shutdown" => AllFiveNone

\* C28, amended: after startup exactly one of the transformer and its error
\* is set; exactly one of the model and its error is set unless the model
\* file holds None, and then neither is; the outcome of each load is that of
\* its own file, whatever the other load did; model_version is set exactly
\* when load_model returned; after shutdown all five fields are None.
C28_StartupState ==
    /\ Started =>
          /\ Cardinality(DOMAIN app_state) = 5
          /\ (StartedTransformer = None) # (StartedTransformerError = None)
          /\ IF ModelFileHoldsNone
             THEN app_state.model = None /\ app_state.model_error = None
             ELSE (app_state.model = None) # (app_state.model_error = None)
          /\ (app_state.model_error = None) = LoadModel(disk.model_path).ok
          /\ call = "lifespan" =>
                 (app_state.transformer_error = None)
                     = LoadTransformer(disk.transformer_path).ok
          /\ (app_state.model_version # None) = LoadModel(disk.model_path).ok
    /\ call = "shutdown" => Cardinality(DOMAIN app_state) = 5 /\ AllFiveNone

\* startup ended with the model load failed and the transformer loaded
C28_Witness ==
    /\ call = "lifespan"
    /\ app_state.model = None
    /\ app_state.model_error # None
    /\ app_state.transformer # None
    /\ app_state.transformer_error = None

(***************************************************************************)
(* Properties of the region columns.                                       *)
(***************************************************************************)
\* transform_features has just run on a row of all six raw columns, on a
\* fitted transformer
TransformedRawRow ==
    /\ call = "transform_features"
    /\ train_df # <<>>
    /\ targ \in RawFrames

RegionColumns == transformer.encode_mappings.onehot_region_columns

RegionSeenAtFit ==
    GetColumn(targ, "region")
        \in Range(transformer.encode_mappings.onehot_region_categories)

\* how many region columns of the transformed row hold 1
RegionOnes ==
    Cardinality({i \in 1..Len(RegionColumns) :
                    GetColumn(tresult.value, RegionColumns[i]) = 1})

\* C25: the transformed row of a fitted transformer has one region column
\* for each region of the training data, each 0 or 1; at most one is 1,
\* exactly one when the row's region was seen at fit, and for an unseen
\* region the transform succeeds with all of them 0.
C25_RegionOneHot ==
    TransformedRawRow =>
        /\ tresult.ok
        /\ Len(RegionColumns) = Cardinality(Range(train_df.region))
        /\ \A i \in 1..Len(RegionColumns) :
              /\ HasColumn(tresult.value, RegionColumns[i])
              /\ GetColumn(tresult.value, RegionColumns[i]) \in {0, 1}
        /\ RegionOnes <= 1
        /\ RegionSeenAtFit => RegionOnes = 1
        /\ ~RegionSeenAtFit => RegionOnes = 0

\* a row of a region the training data lacks, transformed by a transformer
\* fitted on two regions
C25_Witness ==
    /\ TransformedRawRow
    /\ tresult.ok
    /\ Len(RegionColumns) = 2
    /\ ~RegionSeenAtFit
    /\ RegionOnes = 0

\* a row of the second training region, transformed
C25_WitnessSeen ==
    /\ TransformedRawRow
    /\ tresult.ok
    /\ Len(RegionColumns) = 2
    /\ GetColumn(targ, "region")
           = transformer.encode_mappings.onehot_region_categories[2]
    /\ RegionOnes = 1

(***************************************************************************)
(* Properties of the fitted bounds.                                        *)
(***************************************************************************)
SeriesMin(series) == CHOOSE x \in Range(series) : \A y \in Range(series) : x <= y

SeriesMax(series) == CHOOSE x \in Range(series) : \A y \in Range(series) : x >= y

\* min <= low <= high <= max for the bounds fitted on a training column
BoundsWithin(bounds, series) ==
    /\ SeriesMin(series) <= bounds[1]
    /\ bounds[1] <= bounds[2]
    /\ bounds[2] <= SeriesMax(series)

\* the entry of raw_feature_ranges for bmi
RawBmiRange ==
    transformer.raw_feature_ranges[
        CHOOSE i \in 1..Len(transformer.raw_feature_ranges) :
            transformer.raw_feature_ranges[i].col = "bmi"]

\* check_extrapolation has just run on a row of all six raw columns, on a
\* fitted transformer
CheckedRawRow ==
    /\ call = "check_extrapolation"
    /\ Fitted
    /\ targ \in RawFrames

BmiWarned ==
    /\ tresult.ok
    /\ \E i \in 1..Len(tresult.value) :
          tresult.value[i].kind = "range" /\ tresult.value[i].col = "bmi"

\* transform_features changes the bmi of the checked row before scaling it
BmiClamped ==
    LET done == TransformFeatures(transformer, targ).outcome IN
    /\ done.ok
    /\ GetColumn(done.value, "bmi")
           # StandardScalerTransform(transformer.feature_scaler, 2,
                                     GetColumn(targ, "bmi"))

\* C26: after fit the winsorize bounds of bmi and of charges satisfy
\* min <= low <= high <= max over their training column, the bmi bounds lie
\* inside raw_feature_ranges['bmi'], and every bmi that check_extrapolation
\* warns about is clamped by transform_features.
C26_BoundsAndWarnings ==
    /\ Fitted =>
          /\ BoundsWithin(transformer.winsorize_bounds.bmi, train_df.bmi)
          /\ BoundsWithin(transformer.winsorize_bounds.charges,
                          train_df.charges)
          /\ RawBmiRange.low <= transformer.winsorize_bounds.bmi[1]
          /\ transformer.winsorize_bounds.bmi[2] <= RawBmiRange.high
    /\ CheckedRawRow /\ BmiWarned => BmiClamped

\* a bmi inside the raw training range and above the upper fence: clamped
\* without a warning
C26_Witness ==
    /\ CheckedRawRow
    /\ tresult.ok
    /\ ~BmiWarned
    /\ BmiClamped
    /\ transformer.winsorize_bounds.bmi[2] < RawBmiRange.high

\* a bmi below the training range: warned about and clamped
C26_WitnessWarned == CheckedRawRow /\ BmiWarned /\ BmiClamped

\* charges whose upper fence lies below the largest training charge
C26_WitnessCharges ==
    /\ Fitted
    /\ transformer.winsorize_bounds.charges[2] < SeriesMax(train_df.charges)

(***************************************************************************)
(* Properties of the order of the handler's steps.                         *)
(***************************************************************************)
\* the handler raised HTTPException with this status
HttpRaised(status_code) ==
    /\ ~response.ok
    /\ response.error = "HTTPException"
    /\ response.status_code = status_code

\* where in ran the call name stands, 0 when the handler did not make it
FirstCall(name) ==
    IF \E i \in 1..Len(ran) : ran[i] = name
    THEN CHOOSE i \in 1..Len(ran) :
             ran[i] = name /\ \A j \in 1..(i - 1) : ran[j] # name
    ELSE 0

Called(name) == FirstCall(name) > 0

BothLoaded == app_state.model # None /\ app_state.transformer # None

\* the outcomes of the checked steps on the handler's inputs
HandledCheck ==
    CheckExtrapolation(app_state.transformer, PayloadToFrame(targ.request))

HandledPredict ==
    PredictCharges(targ.request, app_state.transformer, targ.predicted).outcome

\* C27: a missing model gives 503 whatever the transformer is; with a model,
\* a missing transformer gives 500; with both, a failed extrapolation check
\* or charge prediction gives 500 and is the last call made; attribution is
\* called only after a successful charge prediction, and the narrative
\* functions only after a successful attribution.
C27_HandlerOrder ==
    Handled =>
        /\ app_state.model = None => HttpRaised(503) /\ ran = <<>>
        /\ (app_state.model # None /\ app_state.transformer = None) =>
               HttpRaised(500) /\ ran = <<>>
        /\ (BothLoaded /\ ~HandledCheck.ok) =>
               HttpRaised(500) /\ ran = <<"check_extrapolation">>
        /\ (BothLoaded /\ HandledCheck.ok /\ ~HandledPredict.ok) =>
               /\ HttpRaised(500)
               /\ ran[Len(ran)] = "predict_charges"
               /\ FirstCall("check_extrapolation") = 1
        /\ Called("compute_shap_contributions") =>
               /\ BothLoaded /\ HandledCheck.ok /\ HandledPredict.ok
               /\ Called("predict_charges")
               /\ FirstCall("predict_charges")
                      < FirstCall("compute_shap_contributions")
        /\ \A name \in {"interpret_shap", "generate_fallback_interpretation"} :
               Called(name) =>
                   /\ Called("compute_shap_contributions")
                   /\ FirstCall("compute_shap_contributions") < FirstCall(name)
                   /\ HandledShap.ok

\* neither artifact loaded: the answer is 503
C27_Witness ==
    /\ Handled
    /\ app_state.model = None
    /\ app_state.transformer = None
    /\ HttpRaised(503)

\* the charge was predicted, attribution failed and no narrative was asked
\* for
C27_WitnessNoNarrative ==
    /\ Handled
    /\ response.ok
    /\ Called("compute_shap_contributions")
    /\ ~HandledShap.ok
    /\ ~Called("interpret_shap")

\* the prediction failed after a warning was formatted
C27_WitnessPredictFailed ==
    /\ Handled
    /\ HttpRaised(500)
    /\ Called("_format_extrapolation_warning")
    /\ ran[Len(ran)] = "predict_charges"

(***************************************************************************)
(* Properties of the fields of _run_prediction's response.                 *)
(***************************************************************************)
\* _run_prediction has returned a response
Returned == call = "_run_prediction" /\ response.ok

\* C29: in every response of _run_prediction interpretation is present
\* exactly when shap is, explainability_error is set exactly when shap is
\* absent, interpretation_source is 'fallback' exactly when llm_error is set
\* and 'OPENAI' exactly when an interpretation is present with no
\* llm_error; a narrative labelled 'OPENAI' is the cleaned external
\* narrative and one labelled 'fallback' is the composer's.
C29_ResponseFields ==
    Returned =>
        LET r == response.value IN
        /\ (r.interpretation # None) = (r.shap # None)
        /\ (r.explainability_error # None) = (r.shap = None)
        /\ (r.interpretation_source = Some("fallback")) = (r.llm_error # None)
        /\ (r.interpretation_source = Some("OPENAI"))
               = (r.interpretation # None /\ r.llm_error = None)
        /\ r.interpretation_source \in {None, Some("fallback"), Some("OPENAI")}
        /\ r.interpretation_source = Some("OPENAI") =>
               /\ openai_api_key # ""
               /\ targ.llm.parse.ok
               /\ r.interpretation = Cleaned(targ.llm.parse.value)
        /\ r.interpretation_source = Some("fallback") =>
               r.interpretation
                   = GenerateFallbackInterpretation(r.shap, r.charges)

\* the narrative service answered with a low-signal narrative: the composer's
\* narrative is returned, labelled 'fallback'
C29_Witness ==
    /\ Returned
    /\ openai_api_key # ""
    /\ targ.llm.parse.ok
    /\ targ.llm.parse.value # None
    /\ response.value.llm_error = Some(LOW_SIGNAL_ERROR)
    /\ response.value.interpretation_source = Some("fallback")

\* an external narrative was kept
C29_WitnessExternal ==
    /\ Returned
    /\ response.value.interpretation_source = Some("OPENAI")
    /\ response.value.llm_error = None

\* attribution failed: no shap, no narrative, no label
C29_WitnessNoShap ==
    /\ Returned
    /\ response.value.shap = None
    /\ response.value.explainability_error # None
    /\ response.value.interpretation_source = None

(***************************************************************************)
(* Properties of the low-signal judgment as one test.                      *)
(***************************************************************************)
\* _is_low_signal_interpretation has just been called on its own
Judged == call = "_is_low_signal_interpretation"

\* the bullet holds one of the generic tokens
HoldsGenericToken(bullet) ==
    \E k \in 1..Len(GENERIC_TOKENS) : Contains(Lower(bullet), GENERIC_TOKENS[k])

\* every bullet holds a generic token and mentions none of the names
AllGeneric(bullets, names) ==
    \A i \in 1..Len(bullets) :
        /\ HoldsGenericToken(bullets[i])
        /\ \A k \in 1..Len(names) : ~Mentions(bullets[i], names[k])

\* C30: _is_low_signal_interpretation returns True exactly when fewer than
\* two bullets contain a feature name as a case-insensitive substring; the
\* generic-token rule decides nothing, since a narrative whose bullets are
\* all generic has no mention and is low-signal by the count already; and
\* the average bullet counts as a mention of age.
C30_SingleTest ==
    Judged =>
        LET bullets == targ.interpretation.bullets
            names == targ.top_features
        IN  /\ tresult.value = (MentionCount(bullets, names) < 2)
            /\ AllGeneric(bullets, names) => MentionCount(bullets, names) < 2
            /\ \A i, j \in 1..Len(bullets) :
                   (/\ i # j
                    /\ bullets[i] = AVERAGE_BULLET
                    /\ \E k \in 1..Len(names) : names[k] = "age"
                    /\ \E k \in 1..Len(names) : Mentions(bullets[j], names[k]))
                   => ~tresult.value

\* the average bullet and one bullet that names smoker, judged against names
\* that hold age: not low-signal
C30_Witness ==
    /\ Judged
    /\ targ.interpretation.bullets = <<AVERAGE_BULLET, "Smoker raised it.">>
    /\ targ.top_features = <<"smoker", "bmi", "age">>
    /\ ~tresult.value

\* three generic bullets: low-signal, by the count of mentions
C30_WitnessGeneric ==
    /\ Judged
    /\ Len(targ.interpretation.bullets) = 3
    /\ Len(targ.top_features) = 3
    /\ AllGeneric(targ.interpretation.bullets, targ.top_features)
    /\ tresult.value

====
